---------------------------- MODULE Spec2Model ----------------------------
(***************************************************************************)
(* A model of doyoucompute: the command validator (security.go), the task  *)
(* runner (executor.go), tables (structure.go) and the execution planner   *)
(* (render.go).                                                            *)
(*                                                                         *)
(* Go strings are modelled as sequences of one-character strings, so that  *)
(* strings.TrimSpace, filepath.Base, strings.Join, strings.Contains and    *)
(* fmt.Errorf are computed as the code computes them.                      *)
(***************************************************************************)
EXTENDS Integers, Sequences, FiniteSets, TLC

\* ------------------------------------------------------------------------
\* Strings
\* ------------------------------------------------------------------------

\* The characters unicode.IsSpace accepts, as far as the inputs use them.
WhiteSpace == {" ", "\t", "\n", "\r"}

RECURSIVE TrimLeft(_)
TrimLeft(s) ==
    IF s # <<>> /\ Head(s) \in WhiteSpace THEN TrimLeft(Tail(s)) ELSE s

RECURSIVE TrimRight(_)
TrimRight(s) ==
    IF s # <<>> /\ s[Len(s)] \in WhiteSpace
    THEN TrimRight(SubSeq(s, 1, Len(s) - 1))
    ELSE s

\* strings.TrimSpace
TrimSpace(s) == TrimRight(TrimLeft(s))

\* strings.Join(elems, sep)
RECURSIVE Join(_, _)
Join(elems, sep) ==
    IF elems = <<>> THEN <<>>
    ELSE IF Len(elems) = 1 THEN elems[1]
    ELSE elems[1] \o sep \o Join(Tail(elems), sep)

\* strings.Contains(s, substr)
Contains(s, substr) ==
    \E i \in 1..(Len(s) - Len(substr) + 1) :
        SubSeq(s, i, i + Len(substr) - 1) = substr

HasPrefix(s, prefix) ==
    Len(s) >= Len(prefix) /\ SubSeq(s, 1, Len(prefix)) = prefix

RECURSIVE StripTrailingSlashes(_)
StripTrailingSlashes(path) ==
    IF path # <<>> /\ path[Len(path)] = "/"
    THEN StripTrailingSlashes(SubSeq(path, 1, Len(path) - 1))
    ELSE path

\* The index of the last "/" of path, 0 when it has none.
LastSlash(path) ==
    LET idxs == {i \in 1..Len(path) : path[i] = "/"}
    IN  IF idxs = {} THEN 0 ELSE CHOOSE i \in idxs : \A j \in idxs : j <= i

\* path/filepath.Base on a Unix path
Base(path) ==
    IF path = <<>> THEN <<".">>
    ELSE LET p == StripTrailingSlashes(path)
             q == SubSeq(p, LastSlash(p) + 1, Len(p))
         IN  IF q = <<>> THEN <<"/">> ELSE q

\* fmt's %v of a []string: the elements, space separated, in brackets
FmtStrings(xs) == <<"[">> \o Join(xs, <<" ">>) \o <<"]">>

\* ------------------------------------------------------------------------
\* Errors: the sentinel an error wraps ("" when it wraps none) and its text;
\* Nil is Go's nil error
\* ------------------------------------------------------------------------

Nil == [sentinel |-> "nil", msg |-> <<>>]

ErrShellNotAllowed == [sentinel |-> "ErrShellNotAllowed", msg |-> <<"s","h","e","l","l"," ","n","o","t"," ","a","l","l","o","w","e","d">>]

ErrCommandNotAllowed == [sentinel |-> "ErrCommandNotAllowed", msg |-> <<"c","o","m","m","a","n","d"," ","n","o","t"," ","a","l","l","o","w","e","d">>]

ErrDangerousCommand == [sentinel |-> "ErrDangerousCommand", msg |-> <<"d","a","n","g","e","r","o","u","s"," ","c","o","m","m","a","n","d"," ","b","l","o","c","k","e","d">>]

\* errors.New(text)
ErrorsNew(text) == [sentinel |-> "", msg |-> text]

\* fmt.Errorf("%w" + suffix, err): wraps err, appending to its text
WrapSuffix(err, suffix) == [sentinel |-> err.sentinel, msg |-> err.msg \o suffix]

\* fmt.Errorf(prefix + "%w", err): wraps err, prepending to its text
WrapPrefix(prefix, err) == [sentinel |-> err.sentinel, msg |-> prefix \o err.msg]

dangerousCommands ==
    << <<"f","o","r","m","a","t">>,
       <<"f","d","i","s","k">>,
       <<"m","k","f","s">>,
       <<"s","h","u","t","d","o","w","n">>,
       <<"r","e","b","o","o","t">>,
       <<"h","a","l","t">>,
       <<"s","u","d","o">>,
       <<"s","u">>,
       <<"i","p","t","a","b","l","e","s">>,
       <<"u","f","w">>,
       <<"f","i","r","e","w","a","l","l","-","c","m","d">>,
       <<"c","r","o","n","t","a","b">>,
       <<"a","t">>,
       <<"b","a","t","c","h">>,
       <<"a","t","q">>,
       <<"a","t","r","m">>,
       <<"s","y","s","t","e","m","c","t","l">>,
       <<"s","e","r","v","i","c","e">>,
       <<"l","a","u","n","c","h","c","t","l">>,
       <<"d","d">> >>

dangerousPatterns ==
    << <<"r","m"," ","-","r","f"," ","/">>,
       <<"r","m"," ","-","f","r"," ","/">>,
       <<"r","m"," ","-","r","f"," ","/","*">>,
       <<"r","m"," ","-","f","r"," ","/","*">>,
       <<">"," ","/","d","e","v","/","s","d">>,
       <<">"," ","/","d","e","v","/","h","d">>,
       <<">"," ","/","d","e","v","/","n","v","m","e">>,
       <<"d","d"," ","o","f","=","/","d","e","v","/">>,
       <<":","(",")","{"," ",":","|",":","&"," ","}",";",":">>,
       <<"c","h","m","o","d"," ","7","7","7"," ","/">>,
       <<"c","h","m","o","d"," ","-","R"," ","7","7","7"," ","/">> >>

MsgNoArguments == <<"c","o","m","m","a","n","d"," ","p","l","a","n"," ","h","a","s"," ","n","o"," ","a","r","g","u","m","e","n","t","s">>

MsgEmptyCommand == <<"c","o","m","m","a","n","d"," ","c","a","n","n","o","t"," ","b","e"," ","e","m","p","t","y">>

\* ------------------------------------------------------------------------
\* security.go
\* ------------------------------------------------------------------------

InSeq(x, xs) == \E i \in 1..Len(xs) : xs[i] = x

\* The index of the first entry of the denylist equal to baseCommand (the range
\* loop returns at the first hit), 0 when there is none
FirstDangerousCommand(baseCommand) ==
    LET hits == {i \in 1..Len(dangerousCommands) : dangerousCommands[i] = baseCommand}
    IN  IF hits = {} THEN 0 ELSE CHOOSE i \in hits : \A j \in hits : i <= j

\* The index of the first dangerous pattern fullCommand contains, 0 when there
\* is none
FirstDangerousPattern(fullCommand) ==
    LET hits == {i \in 1..Len(dangerousPatterns) :
                    Contains(fullCommand, dangerousPatterns[i])}
    IN  IF hits = {} THEN 0 ELSE CHOOSE i \in hits : \A j \in hits : i <= j

\* validatePlanArgs with the denylist in an else branch of the allow-list check
validatePlanArgsElseIf(plan, cfg) ==
    IF Len(plan.Args) = 0 THEN ErrorsNew(MsgNoArguments)
    ELSE IF TrimSpace(plan.Args[1]) = <<>> THEN ErrorsNew(MsgEmptyCommand)
    ELSE
      LET baseCommand == Base(plan.Args[1])
          fullCommand == Join(plan.Args, <<" ">>)
          dcIdx == FirstDangerousCommand(baseCommand)
          dpIdx == FirstDangerousPattern(fullCommand)
      IN  IF Len(cfg.AllowedCommands) > 0
          THEN IF ~InSeq(baseCommand, cfg.AllowedCommands)
               THEN WrapSuffix(ErrCommandNotAllowed,
                               <<":", " ">> \o baseCommand \o <<" ","(","a","l","l","o","w","e","d",":"," ">>
                               \o FmtStrings(cfg.AllowedCommands) \o <<")">>)
               ELSE Nil
          ELSE IF cfg.BlockDangerousCommands /\ dcIdx # 0
          THEN WrapSuffix(ErrDangerousCommand, <<":", " ">> \o dangerousCommands[dcIdx])
          ELSE IF cfg.BlockDangerousCommands /\ dpIdx # 0
          THEN WrapSuffix(ErrDangerousCommand,
                          <<":"," ","c","o","n","t","a","i","n","s"," ","'">> \o dangerousPatterns[dpIdx] \o <<"'">>)
          ELSE Nil

validatePlanArgs(plan, cfg) ==
    IF Len(plan.Args) = 0 THEN ErrorsNew(MsgNoArguments)
    ELSE IF TrimSpace(plan.Args[1]) = <<>> THEN ErrorsNew(MsgEmptyCommand)
    ELSE
      LET baseCommand == Base(plan.Args[1])
          fullCommand == Join(plan.Args, <<" ">>)
          dcIdx == FirstDangerousCommand(baseCommand)
          dpIdx == FirstDangerousPattern(fullCommand)
      IN  IF Len(cfg.AllowedCommands) > 0 /\ ~InSeq(baseCommand, cfg.AllowedCommands)
          THEN WrapSuffix(ErrCommandNotAllowed,
                          <<":", " ">> \o baseCommand \o <<" ","(","a","l","l","o","w","e","d",":"," ">>
                          \o FmtStrings(cfg.AllowedCommands) \o <<")">>)
          ELSE IF cfg.BlockDangerousCommands /\ dcIdx # 0
          THEN WrapSuffix(ErrDangerousCommand, <<":", " ">> \o dangerousCommands[dcIdx])
          ELSE IF cfg.BlockDangerousCommands /\ dpIdx # 0
          THEN WrapSuffix(ErrDangerousCommand,
                          <<":"," ","c","o","n","t","a","i","n","s"," ","'">> \o dangerousPatterns[dpIdx] \o <<"'">>)
          ELSE Nil

\* validateShell printing the allowed commands instead of the allowed shells
validateShellWrongList(shell, cfg) ==
    IF Len(cfg.AllowedShells) = 0 THEN Nil
    ELSE IF InSeq(shell, cfg.AllowedShells) THEN Nil
    ELSE WrapSuffix(ErrShellNotAllowed,
                    <<":", " ">> \o shell \o <<" ","(","a","l","l","o","w","e","d",":"," ">>
                    \o FmtStrings(cfg.AllowedCommands) \o <<")">>)

validateShell(shell, cfg) ==
    IF Len(cfg.AllowedShells) = 0 THEN Nil
    ELSE IF InSeq(shell, cfg.AllowedShells) THEN Nil
    ELSE WrapSuffix(ErrShellNotAllowed,
                    <<":", " ">> \o shell \o <<" ","(","a","l","l","o","w","e","d",":"," ">>
                    \o FmtStrings(cfg.AllowedShells) \o <<")">>)

\* ValidateCommandPlan checking the shell before the arguments
ValidateCommandPlanShellFirst(plan, cfg) ==
    LET err == validateShell(plan.Shell, cfg)
    IN  IF err # Nil THEN err ELSE validatePlanArgs(plan, cfg)

ValidateCommandPlan(plan, cfg) ==
    LET err == validatePlanArgs(plan, cfg)
    IN  IF err # Nil THEN err ELSE validateShell(plan.Shell, cfg)

\* ------------------------------------------------------------------------
\* ValidateCommandPlan as a pure function: inputs drawn from bounded sets
\* ------------------------------------------------------------------------

VARIABLES vplan, vconfig, verr

MaxArgs == 3

sSudo == <<"s","u","d","o">>
sBinSudo == <<"/","b","i","n","/","s","u","d","o">>
sEcho == <<"e","c","h","o">>
sRm == <<"r","m">>
sDashRf == <<"-","r","f">>
sSlash == <<"/">>
sBlank == <<" ">>
sEmpty == <<>>
sSh == <<"s","h">>
sBash == <<"b","a","s","h">>
sPython3 == <<"p","y","t","h","o","n","3">>

ArgTokens == {sSudo, sBinSudo, sEcho, sRm, sDashRf, sSlash, sBlank, sEmpty}

SeqsUpTo(S, n) == UNION {[1..k -> S] : k \in 0..n}

ArgLists == SeqsUpTo(ArgTokens, MaxArgs)

Shells == {sSh, sBash, sPython3}

NoContext == [Name |-> "", Level |-> 0]

AllowedCommandsChoices == {<<>>, <<sEcho>>, <<sEcho, sSudo>>, <<sRm>>}

AllowedShellsChoices == {<<>>, <<sSh>>, <<sBash, sSh>>}

ValidatePlans ==
    {[Shell |-> sh, Args |-> a, Context |-> NoContext, Environment |-> <<>>] :
        sh \in Shells, a \in ArgLists}

ValidateConfigs ==
    {[Timeout |-> 0, AllowedShells |-> s, AllowedCommands |-> c,
      BlockDangerousCommands |-> b] :
        s \in AllowedShellsChoices, c \in AllowedCommandsChoices, b \in BOOLEAN}

Pending == [sentinel |-> "pending", msg |-> <<>>]

\* ------------------------------------------------------------------------
\* executor.go: TaskRunner.Run and RunExecutionPlan
\* ------------------------------------------------------------------------

VARIABLES
    plans,      \* the batch handed to RunExecutionPlan
    config,     \* TaskRunner.config
    environ,    \* the process environment: name -> value, or Unset
    idx,        \* RunExecutionPlan's loop index (plans already handled)
    pc,         \* where the batch is: loop, validate, envcheck, start, wait, return, done
    result,     \* the TaskResult that Run is building
    results,    \* RunExecutionPlan's result slice
    calls,      \* the plans runner.Run was called with, in call order
    steps,      \* what the current Run call has done so far
    proc,       \* the external process of the current Run call
    elapsed,    \* the time the process has been running
    deadline    \* the context's deadline, 0 for context.Background()

COMPLETED == 1

FAILED == 2

MaxPlans == 2

MaxTime == 3

sApiKey == <<"A","P","I","_","K","E","Y">>
sToken == <<"T","O","K","E","N">>
sHi == <<"h","i">>

MsgSecurityFailed == <<"s","e","c","u","r","i","t","y"," ","v","a","l","i","d","a","t","i","o","n"," ","f","a","i","l","e","d",":"," ">>

MsgEnvironmentFailed == <<"e","n","v","i","r","o","n","m","e","n","t"," ","v","a","l","i","d","a","t","i","o","n"," ","f","a","i","l","e","d",":"," ">>

MsgEnvNotSet == <<"r","e","q","u","i","r","e","d"," ","e","n","v","i","r","o","n","m","e","n","t"," ","v","a","r","i","a","b","l","e","s"," ","n","o","t"," ","s","e","t",":"," ">>

MsgNoCommand == <<"n","o"," ","c","o","m","m","a","n","d"," ","s","p","e","c","i","f","i","e","d">>

\* The value of a variable the environment does not hold: no Go string
Unset == <<"(unset)">>

\* A lookup that tells a variable set to "" from one that is not set
\* (os.LookupEnv's ok flag, rendered as a non-empty value)
GetenvLookup(env, name) ==
    IF env[name] = Unset THEN <<>> ELSE <<"=">> \o env[name]

\* os.Getenv: the value, "" when the variable is not set
Getenv(env, name) == IF env[name] = Unset THEN <<>> ELSE env[name]

\* validateEnvironment's loop stopping at the first missing name
RECURSIVE MissingEnvFirstOnly(_, _)
MissingEnvFirstOnly(requiredEnvVars, env) ==
    IF requiredEnvVars = <<>> THEN <<>>
    ELSE IF Getenv(env, Head(requiredEnvVars)) = <<>>
    THEN <<Head(requiredEnvVars)>>
    ELSE MissingEnvFirstOnly(Tail(requiredEnvVars), env)

\* The names the loop of validateEnvironment appends to `missing`
RECURSIVE MissingEnv(_, _)
MissingEnv(requiredEnvVars, env) ==
    IF requiredEnvVars = <<>> THEN <<>>
    ELSE IF Getenv(env, Head(requiredEnvVars)) = <<>>
    THEN <<Head(requiredEnvVars)>> \o MissingEnv(Tail(requiredEnvVars), env)
    ELSE MissingEnv(Tail(requiredEnvVars), env)

validateEnvironment(requiredEnvVars, env) ==
    LET missing == MissingEnv(requiredEnvVars, env)
    IN  IF Len(missing) > 0
        THEN ErrorsNew(MsgEnvNotSet \o FmtStrings(missing))
        ELSE Nil

\* The TaskResult Run starts from
NewResult(plan) ==
    [SectionName |-> plan.Context.Name, Command |-> Join(plan.Args, <<" ">>),
     Status |-> 0, Error |-> Nil]

\* The zero TaskResult that make([]TaskResult, n) fills the slice with
ZeroResult == [SectionName |-> "", Command |-> <<>>, Status |-> 0, Error |-> Nil]

\* Run marking the result FAILED without recording the error
FailWithoutError(res, err) == [res EXCEPT !.Status = FAILED]

\* result.Error = err; result.Status = FAILED
Fail(res, err) == [res EXCEPT !.Error = err, !.Status = FAILED]

\* The argv exec.CommandContext is given
CommandArgv(plan) ==
    IF plan.Shell = sSh \/ plan.Shell = sBash
    THEN <<plan.Shell, <<"-", "c">>, Join(plan.Args, <<" ">>)>>
    ELSE plan.Args

\* Run never bounding the context
ContextDeadlineNone(cfg) == 0

\* The deadline of the context Run hands to exec.CommandContext
ContextDeadline(cfg) == IF cfg.Timeout > 0 THEN cfg.Timeout ELSE 0

NoProc == [state |-> "none", argv |-> <<>>]

\* Errors cmd.Run returns
ErrStart == [sentinel |-> "exec.Error", msg |-> <<"e","x","e","c","u","t","a","b","l","e"," ","f","i","l","e"," ","n","o","t"," ","f","o","u","n","d"," ","i","n"," ","$","P","A","T","H">>]

ErrExit == [sentinel |-> "exec.ExitError", msg |-> <<"e","x","i","t"," ","s","t","a","t","u","s"," ","1">>]

ErrKilled == [sentinel |-> "exec.ExitError", msg |-> <<"s","i","g","n","a","l",":"," ","k","i","l","l","e","d">>]

\* ------------------------------------------------------------------------
\* structure.go: tables.  render.go: the execution planner.
\* ------------------------------------------------------------------------

VARIABLES
    heap,       \* the Table objects that exist behind a pointer (*Table)
    content,    \* the Content of the section tables are added to
    top,        \* the latest table operation and its arguments
    tprev,      \* heap before the latest table operation
    terr        \* what the latest AddRow returned

VARIABLES
    doc,        \* the document tree
    planOut     \* what Executioner.Render returned for doc, NotRendered before

VARIABLES
    readers,    \* the io.Readers behind the Remote nodes: what is left to read
    mdOut       \* what Markdown.Render returned for doc, NotRenderedText before

VARIABLES
    files,      \* the storage behind the Repository: the content at each path
    svcOp,      \* the latest operation of the Service, with the document and
                \* the readers it was called with
    svcErr,     \* the error the latest operation returned
    cmpOut,     \* the ComparisonResult the latest CompareFile returned
    svcPlans    \* the plans the latest PlanScriptExecution returned

VARIABLES
    twin,       \* the document a second program writes with the Create* and
                \* Write* operations while the first writes doc with Add*
    sec,        \* the Section value the first program is filling before it
                \* hands it to AddSection
    authOp      \* the latest authoring operation, with the trees before it

validateVars == <<vplan, vconfig, verr>>

runVars == <<plans, config, environ, idx, pc, result, results, calls, steps,
             proc, elapsed, deadline>>

tableVars == <<heap, content, top, tprev, terr>>

treeVars == <<doc, planOut>>

renderVars == <<readers, mdOut>>

serviceVars == <<files, svcOp, svcErr, cmpOut, svcPlans>>

authorVars == <<twin, sec, authOp>>

VARIABLES
    opts,       \* the option builders ApplyOptions was called with
    props,      \* the configuration object ApplyOptions was called with
    optIdx,     \* the number of options ApplyOptions is done with
    optPc,      \* where ApplyOptions is: idle, loop, post, done
    optLog,     \* the calls of options and finalizers so far, with the
                \* configuration each one saw
    optErr      \* the error ApplyOptions returned

optVars == <<opts, props, optIdx, optPc, optLog, optErr>>

VARIABLES
    cliArgs,    \* the --doc-name and --section the run command was given
    cliPc,      \* where the run command is: idle, running, done
    cliLog,     \* what the run command did so far: findDoc, plan, run, report
    cliErr      \* the error the Action of the run command returned

cliVars == <<cliArgs, cliPc, cliLog, cliErr>>

VARIABLES
    ctxGrow,    \* how append sizes the array it allocates when a slice is full
    ctxPlans,   \* what Executioner.Render returned for doc, its ContextPath
                \* slices living in arrays, and the arrays afterwards
    ctxHeads    \* the headings Markdown.Render wrote for doc, in the order
                \* of the text, its ContextPath slices living in arrays

ctxVars == <<ctxGrow, ctxPlans, ctxHeads>>

VARIABLES
    rdFirst,    \* the readers as they were when the first render began
    mdAgain     \* what the second Markdown.Render of doc returned

remVars == <<rdFirst, mdAgain>>

VARIABLES
    svcResults  \* the TaskResults the latest ExecuteScript returned

exeVars == <<svcResults>>

VARIABLES
    hObjs,      \* the structs behind pointers: the Document, the caller's
                \* Section variable, what Create* and Write* allocated
    hArrs,      \* the arrays behind the Content and Items slices
    hSec,       \* the address of the caller's Section variable, 0 before
                \* NewSection
    hHandles,   \* the handles Create* and Write* returned so far, each with
                \* the address of the parent it was inserted in
    hOp         \* the latest operation, with the trees as they were before

hdlVars == <<hObjs, hArrs, hSec, hHandles, hOp>>

moreVars == <<ctxVars, remVars, exeVars, hdlVars>>

lateVars == <<cliVars, moreVars>>

extraVars == <<optVars, lateVars>>

auxVars == <<renderVars, serviceVars, authorVars, extraVars>>

vars == <<validateVars, runVars, tableVars, treeVars, auxVars>>

NoConfig ==
    [Timeout |-> 0, AllowedShells |-> <<>>, AllowedCommands |-> <<>>,
     BlockDangerousCommands |-> FALSE]

NoPlan == [Shell |-> <<>>, Args |-> <<>>, Context |-> NoContext, Environment |-> <<>>]

EnvNames == {sApiKey, sToken}

\* The part of the model a specification does not use stays as it starts.
ValidateIdle == vplan = NoPlan /\ vconfig = NoConfig /\ verr = Pending

RunIdle ==
    /\ plans = <<>> /\ config = NoConfig /\ environ = [n \in EnvNames |-> Unset]
    /\ idx = 0 /\ pc = "idle" /\ result = ZeroResult /\ results = <<>>
    /\ calls = <<>> /\ steps = <<>> /\ proc = NoProc /\ elapsed = 0 /\ deadline = 0

NoOp == [name |-> "none", ref |-> 0, row |-> <<>>]

TableIdle ==
    heap = <<>> /\ content = <<>> /\ top = NoOp /\ tprev = <<>> /\ terr = Pending

NotRendered == [plans |-> <<>>, err |-> Pending]

\* A nil map[string]interface{}, the Data of the zero Frontmatter
NilData == [isNil |-> TRUE, entries |-> <<>>]

NoDoc ==
    [kind |-> "None", ptr |-> FALSE, name |-> "", children |-> <<>>,
     shell |-> <<>>, cmd |-> <<>>, env |-> <<>>, impl |-> "repo", reader |-> 0,
     data |-> NilData]

NotRenderedText == [text |-> <<>>, err |-> Pending]

RenderIdle == readers = <<>> /\ mdOut = NotRenderedText

\* The paths documents are rendered to
Paths == {"README.md"}

NoFile == [exists |-> FALSE, data |-> <<>>]

NoServiceOp ==
    [name |-> "none", path |-> "", section |-> "", fault |-> "none",
     document |-> NoDoc, rd |-> <<>>]

\* ComparisonResult{}
ZeroComparison == [Matches |-> FALSE, DocumentHash |-> <<>>, FileHash |-> <<>>]

ServiceIdle ==
    /\ files = [p \in Paths |-> NoFile]
    /\ svcOp = NoServiceOp
    /\ svcErr = Pending /\ cmpOut = ZeroComparison /\ svcPlans = <<>>

NoAuthorOp ==
    [name |-> "none", intro |-> FALSE, side |-> "none", twinPath |-> <<>>,
     twinTouched |-> FALSE, val |-> "", before |-> [doc |-> NoDoc, sec |-> NoDoc, twin |-> NoDoc]]

AuthorIdle == twin = NoDoc /\ sec = NoDoc /\ authOp = NoAuthorOp

\* The zero value of the configuration
NoProps == [name |-> "", title |-> ""]

OptionsIdle ==
    /\ opts = <<>> /\ props = NoProps /\ optIdx = 0 /\ optPc = "idle"
    /\ optLog = <<>> /\ optErr = Pending

NoCliArgs == [name |-> "", section |-> ""]

CliIdle ==
    cliArgs = NoCliArgs /\ cliPc = "idle" /\ cliLog = <<>> /\ cliErr = Pending

NotTraversed == [done |-> FALSE, out |-> <<>>, arrays |-> <<>>]

ContextIdle ==
    ctxGrow = "double" /\ ctxPlans = NotTraversed /\ ctxHeads = NotTraversed

RemoteIdle == rdFirst = <<>> /\ mdAgain = NotRenderedText

ExecuteIdle == svcResults = <<>>

NoHandleOp ==
    [name |-> "none", target |-> 0, handle |-> 0, afterAdd |-> FALSE,
     before |-> [doc |-> NoDoc, sec |-> NoDoc, parent |-> NoDoc]]

HandleIdle ==
    /\ hObjs = <<>> /\ hArrs = <<>> /\ hSec = 0 /\ hHandles = {}
    /\ hOp = NoHandleOp

MoreIdle == ContextIdle /\ RemoteIdle /\ ExecuteIdle /\ HandleIdle

LateIdle == CliIdle /\ MoreIdle

ExtraIdle == OptionsIdle /\ LateIdle

AuxIdle == RenderIdle /\ ServiceIdle /\ AuthorIdle /\ ExtraIdle

TreeIdle == doc = NoDoc /\ planOut = NotRendered /\ AuxIdle

\* ------------------------------------------------------------------------
\* Specification of ValidateCommandPlan
\* ------------------------------------------------------------------------

ValidateInit ==
    /\ vplan \in ValidatePlans
    /\ vconfig \in ValidateConfigs
    /\ verr = Pending
    /\ RunIdle /\ TableIdle /\ TreeIdle

Validate ==
    /\ verr = Pending
    /\ verr' = ValidateCommandPlan(vplan, vconfig)
    /\ UNCHANGED <<vplan, vconfig, runVars, tableVars, treeVars, auxVars>>

ValidateNext == Validate

SpecValidate == ValidateInit /\ [][ValidateNext]_vars

\* ------------------------------------------------------------------------
\* Specification of RunExecutionPlan with a TaskRunner
\* ------------------------------------------------------------------------

sGo == <<"g","o">>

RunPlanPool ==
    { [Shell |-> sSh, Args |-> <<sEcho, sHi>>,
       Context |-> [Name |-> "Setup", Level |-> 2], Environment |-> <<>>],
      [Shell |-> sBash, Args |-> <<sEcho>>,
       Context |-> [Name |-> "Build", Level |-> 3], Environment |-> <<sApiKey>>],
      [Shell |-> sPython3, Args |-> <<sGo, sHi>>,
       Context |-> [Name |-> "Deploy", Level |-> 2],
       Environment |-> <<sToken, sApiKey>>],
      [Shell |-> sSh, Args |-> <<sSudo, sRm>>,
       Context |-> [Name |-> "Admin", Level |-> 2], Environment |-> <<sApiKey>>],
      [Shell |-> sSh, Args |-> <<>>,
       Context |-> [Name |-> "Empty", Level |-> 1], Environment |-> <<>>],
      [Shell |-> sBash, Args |-> <<sRm>>,
       Context |-> [Name |-> "Clean", Level |-> 4],
       Environment |-> <<sApiKey, sToken, sApiKey>>] }

\* Timeouts in ticks of the model's clock; the longest is shorter than the
\* longest a process may run.
Timeouts == 0..(MaxTime - 1)

RunConfigs ==
    {[Timeout |-> t, AllowedShells |-> p.s, AllowedCommands |-> p.c,
      BlockDangerousCommands |-> p.b] :
        t \in Timeouts,
        p \in { [s |-> <<>>, c |-> <<>>, b |-> FALSE],
                [s |-> <<sBash, sSh>>, c |-> <<>>, b |-> TRUE],
                [s |-> <<sSh>>, c |-> <<sEcho, sGo>>, b |-> FALSE] }}

sValue == <<"v">>

RunEnvirons ==
    { [n \in EnvNames |-> Unset],
      [n \in EnvNames |-> IF n = sApiKey THEN sValue ELSE Unset],
      [n \in EnvNames |-> IF n = sApiKey THEN <<>> ELSE sValue],
      [n \in EnvNames |-> sValue] }

RunInit ==
    /\ plans \in SeqsUpTo(RunPlanPool, MaxPlans)
    /\ config \in RunConfigs
    /\ environ \in RunEnvirons
    /\ idx = 0
    /\ pc = "loop"
    /\ result = ZeroResult
    /\ results = [i \in 1..Len(plans) |-> ZeroResult]
    /\ calls = <<>>
    /\ steps = <<>>
    /\ proc = NoProc
    /\ elapsed = 0
    /\ deadline = 0
    /\ ValidateIdle /\ TableIdle /\ TreeIdle

\* A step of the batch leaves the rest of the model alone
RunFrame == UNCHANGED <<validateVars, tableVars, treeVars, auxVars>>

\* The plan the current Run call was given
CurrentPlan == plans[idx + 1]

\* Run recording the validation failure without returning
RunValidationNoReturn(plan, cfg, res) ==
    LET err == ValidateCommandPlan(plan, cfg)
    IN  IF err # Nil
        THEN [result |-> Fail(res, WrapPrefix(MsgSecurityFailed, err)), pc |-> "envcheck"]
        ELSE [result |-> res, pc |-> "envcheck"]

\* Run, first step: the security validation and what follows it
RunValidation(plan, cfg, res) ==
    LET err == ValidateCommandPlan(plan, cfg)
    IN  IF err # Nil
        THEN [result |-> Fail(res, WrapPrefix(MsgSecurityFailed, err)), pc |-> "return"]
        ELSE [result |-> res, pc |-> "envcheck"]

\* Run, second step: the required environment variables
RunEnvironment(plan, env, res) ==
    LET err == validateEnvironment(plan.Environment, env)
    IN  IF err # Nil
        THEN [result |-> Fail(res, WrapPrefix(MsgEnvironmentFailed, err)), pc |-> "return"]
        ELSE [result |-> res, pc |-> "start"]

\* RunExecutionPlan giving up after a failed command
LoopDoneStopOnFailure(i, ps, rs) ==
    i = Len(ps) \/ (i > 0 /\ rs[i].Status = FAILED)

\* RunExecutionPlan's loop condition: every plan has been handled
LoopDone(i, ps, rs) == i = Len(ps)

\* results[idx] = runner.Run(commandPlan), the call
CallRun ==
    /\ RunFrame
    /\ pc = "loop"
    /\ ~LoopDone(idx, plans, results)
    /\ calls' = Append(calls, idx + 1)
    /\ result' = NewResult(CurrentPlan)
    /\ steps' = <<>>
    /\ proc' = NoProc
    /\ elapsed' = 0
    /\ deadline' = 0
    /\ pc' = "validate"
    /\ UNCHANGED <<plans, config, environ, idx, results>>

DoValidate ==
    /\ RunFrame
    /\ pc = "validate"
    /\ LET out == RunValidation(CurrentPlan, config, result)
       IN  result' = out.result /\ pc' = out.pc
    /\ steps' = Append(steps, "validate")
    /\ UNCHANGED <<plans, config, environ, idx, results, calls, proc, elapsed, deadline>>

DoEnvCheck ==
    /\ RunFrame
    /\ pc = "envcheck"
    /\ LET out == RunEnvironment(CurrentPlan, environ, result)
       IN  result' = out.result /\ pc' = out.pc
    /\ steps' = Append(steps, "envcheck")
    /\ UNCHANGED <<plans, config, environ, idx, results, calls, proc, elapsed, deadline>>

\* The rest of Run up to cmd.Run starting the process: the argument check, the
\* context, the command.  Starting may fail (no such executable).
StartProcess ==
    /\ RunFrame
    /\ pc = "start"
    /\ IF Len(CurrentPlan.Args) = 0
       THEN /\ result' = Fail(result, ErrorsNew(MsgNoCommand))
            /\ pc' = "return"
            /\ UNCHANGED <<proc, deadline, steps>>
       ELSE /\ deadline' = ContextDeadline(config)
            /\ steps' = Append(steps, "start")
            /\ \E started \in BOOLEAN :
                 IF started
                 THEN /\ proc' = [state |-> "running", argv |-> CommandArgv(CurrentPlan)]
                      /\ pc' = "wait"
                      /\ UNCHANGED result
                 ELSE /\ result' = Fail(result, ErrStart)
                      /\ pc' = "return"
                      /\ UNCHANGED proc
    /\ elapsed' = 0
    /\ UNCHANGED <<plans, config, environ, idx, results, calls>>

\* Time passes while the process runs; a context with a deadline does not let
\* the process run past it.
Tick ==
    /\ RunFrame
    /\ pc = "wait" /\ proc.state = "running"
    /\ elapsed < MaxTime
    /\ deadline = 0 \/ elapsed < deadline
    /\ elapsed' = elapsed + 1
    /\ UNCHANGED <<plans, config, environ, idx, pc, result, results, calls, steps,
                   proc, deadline>>

\* The process exits by itself and cmd.Run returns
ProcessExit ==
    /\ RunFrame
    /\ pc = "wait" /\ proc.state = "running"
    /\ \E code \in {0, 1} :
         /\ proc' = [proc EXCEPT !.state = IF code = 0 THEN "exited0" ELSE "exited1"]
         /\ result' = IF code = 0
                      THEN [result EXCEPT !.Status = COMPLETED]
                      ELSE Fail(result, ErrExit)
    /\ pc' = "return"
    /\ UNCHANGED <<plans, config, environ, idx, results, calls, steps, elapsed, deadline>>

\* The context's deadline passes: exec kills the process and cmd.Run returns
\* the error
DeadlineKill ==
    /\ RunFrame
    /\ pc = "wait" /\ proc.state = "running"
    /\ deadline > 0 /\ elapsed >= deadline
    /\ proc' = [proc EXCEPT !.state = "killed"]
    /\ result' = Fail(result, ErrKilled)
    /\ pc' = "return"
    /\ UNCHANGED <<plans, config, environ, idx, results, calls, steps, elapsed, deadline>>

\* Run returns and RunExecutionPlan stores the result
ReturnResult ==
    /\ RunFrame
    /\ pc = "return"
    /\ results' = [results EXCEPT ![idx + 1] = result]
    /\ idx' = idx + 1
    /\ pc' = "loop"
    /\ UNCHANGED <<plans, config, environ, result, calls, steps, proc, elapsed, deadline>>

\* RunExecutionPlan returns results
Finish ==
    /\ RunFrame
    /\ pc = "loop"
    /\ LoopDone(idx, plans, results)
    /\ pc' = "done"
    /\ UNCHANGED <<plans, config, environ, idx, result, results, calls, steps, proc,
                   elapsed, deadline>>

RunNext ==
    \/ CallRun
    \/ DoValidate
    \/ DoEnvCheck
    \/ StartProcess
    \/ Tick
    \/ ProcessExit
    \/ DeadlineKill
    \/ ReturnResult
    \/ Finish

SpecRun == RunInit /\ [][RunNext]_vars

\* ------------------------------------------------------------------------
\* Specification of tables: NewTable, Section.AddTable, Section.CreateTable
\* and Table.AddRow
\* ------------------------------------------------------------------------

MaxHeaders == 2

MaxRows == 2

ErrRowTooLong == ErrorsNew(<<"R","o","w"," ","l","e","n","g","t","h"," ","e","x","c","e","e","d","s"," ","n","u","m","b","e","r"," ","o","f"," ","h","e","a","d","e","r","s">>)

\* The header slices and rows callers pass: what matters is their length
HeaderChoices == {[i \in 1..k |-> "h"] : k \in 0..MaxHeaders}

RowChoices == {[i \in 1..k |-> "x"] : k \in 0..(MaxHeaders + 1)}

\* []TableRow arguments of NewTable and AddTable
ItemsChoices == {[i \in 1..k |-> [Values |-> r]] : k \in 0..1, r \in RowChoices}

NoTable == [Headers |-> <<>>, Items |-> <<>>]

\* A child of the section: a Table value, or a pointer to the table heap[ref]
TableValue(t) == [ptr |-> FALSE, ref |-> 0, val |-> t]

TablePointer(ref) == [ptr |-> TRUE, ref |-> ref, val |-> NoTable]

\* The table a child of the section stands for
TableOf(child) == IF child.ptr THEN heap[child.ref] ELSE child.val

\* AddRow appending before it checks the length
TableAddRowCheckLate(t, row) ==
    LET added == [t EXCEPT !.Items = Append(t.Items, [Values |-> row])]
    IN  IF Len(row) > Len(t.Headers)
        THEN [table |-> added, err |-> ErrRowTooLong]
        ELSE [table |-> added, err |-> Nil]

\* Table.AddRow: the table afterwards and the error returned
TableAddRow(t, row) ==
    IF Len(row) > Len(t.Headers)
    THEN [table |-> t, err |-> ErrRowTooLong]
    ELSE [table |-> [t EXCEPT !.Items = Append(t.Items, [Values |-> row])],
          err |-> Nil]

TableInit ==
    /\ heap = <<>>
    /\ content = <<>>
    /\ top = NoOp
    /\ tprev = <<>>
    /\ terr = Pending
    /\ ValidateIdle /\ RunIdle /\ TreeIdle

TableFrame == UNCHANGED <<validateVars, runVars, treeVars, auxVars>>

\* NewTable(headers, items)
NewTable ==
    /\ TableFrame
    /\ heap = <<>> /\ content = <<>>
    /\ \E headers \in HeaderChoices, items \in ItemsChoices :
         heap' = <<[Headers |-> headers, Items |-> items]>>
    /\ top' = [name |-> "NewTable", ref |-> 1, row |-> <<>>]
    /\ tprev' = heap
    /\ UNCHANGED <<content, terr>>

\* Section.AddTable(headers, rows): the section gets a Table value
SectionAddTable ==
    /\ TableFrame
    /\ heap = <<>> /\ content = <<>>
    /\ \E headers \in HeaderChoices, rows \in ItemsChoices :
         content' = <<TableValue([Headers |-> headers, Items |-> rows])>>
    /\ top' = [name |-> "AddTable", ref |-> 0, row |-> <<>>]
    /\ tprev' = heap
    /\ UNCHANGED <<heap, terr>>

\* Section.CreateTable(headers): the section gets a pointer to a new empty
\* table, which is returned
SectionCreateTable ==
    /\ TableFrame
    /\ heap = <<>> /\ content = <<>>
    /\ \E headers \in HeaderChoices :
         heap' = <<[Headers |-> headers, Items |-> <<>>]>>
    /\ content' = <<TablePointer(1)>>
    /\ top' = [name |-> "CreateTable", ref |-> 1, row |-> <<>>]
    /\ tprev' = heap
    /\ UNCHANGED terr

\* t.AddRow(row...) on a table the caller holds a pointer to
AddRow ==
    /\ TableFrame
    /\ \E ref \in 1..Len(heap), row \in RowChoices :
         /\ Len(heap[ref].Items) < MaxRows \/ Len(row) > Len(heap[ref].Headers)
         /\ LET out == TableAddRow(heap[ref], row)
            IN  /\ heap' = [heap EXCEPT ![ref] = out.table]
                /\ terr' = out.err
         /\ top' = [name |-> "AddRow", ref |-> ref, row |-> row]
    /\ tprev' = heap
    /\ UNCHANGED content

TableNext ==
    \/ NewTable
    \/ SectionAddTable
    \/ SectionCreateTable
    \/ AddRow

SpecTable == TableInit /\ [][TableNext]_vars

\* ------------------------------------------------------------------------
\* The document tree (structure.go, content.go) and render.go's Executioner
\* ------------------------------------------------------------------------

\* A node of the tree: its Type(), whether the parent holds it by pointer, its
\* name (Document, Section) or text, its children, and an Executable's or
\* CodeBlock's shell, command and environment.  impl is "repo" for the node
\* types of the repository and names the behaviour of a caller's own
\* implementation of Node otherwise; reader is the io.Reader of a Remote.
Leaf(kind, text) ==
    [kind |-> kind, ptr |-> FALSE, name |-> text, children |-> <<>>,
     shell |-> <<>>, cmd |-> <<>>, env |-> <<>>, impl |-> "repo", reader |-> 0,
     data |-> NilData]

Container(kind, ptr, name, children) ==
    [kind |-> kind, ptr |-> ptr, name |-> name, children |-> children,
     shell |-> <<>>, cmd |-> <<>>, env |-> <<>>, impl |-> "repo", reader |-> 0,
     data |-> NilData]

\* Executable{Shell, Cmd, Environment}
Executable(shell, cmd, env) ==
    [kind |-> "Executable", ptr |-> FALSE, name |-> "", children |-> <<>>,
     shell |-> shell, cmd |-> cmd, env |-> env, impl |-> "repo", reader |-> 0,
     data |-> NilData]

\* CodeBlock{BlockType, Cmd}
CodeBlock(blockType, cmd) ==
    [kind |-> "CodeBlock", ptr |-> FALSE, name |-> "", children |-> <<>>,
     shell |-> blockType, cmd |-> cmd, env |-> <<>>, impl |-> "repo", reader |-> 0,
     data |-> NilData]

\* NewDocument(name), held in a variable of the caller
NewDocument(name) == Container("Document", TRUE, name, <<>>)

\* Structurer.Identifier
Identifier(node) ==
    IF node.kind \in {"Document", "Section"} THEN node.name ELSE ""

\* Push numbering levels from zero
PushLevelFromZero(c, name) == Append(c, [Name |-> name, Level |-> Len(c)])

\* ContextPath.Push
Push(c, name) == Append(c, [Name |-> name, Level |-> Len(c) + 1])

\* ContextPath.Current
Current(c) == IF Len(c) = 0 THEN [Name |-> "", Level |-> 0] ELSE c[Len(c)]

\* Executable.Materialize: the content and the metadata map
MaterializeExecutable(node) ==
    [Type |-> "Executable",
     Content |-> Join(node.cmd, <<" ">>),
     Metadata |-> [Shell |-> node.shell, Command |-> node.cmd,
                   Environment |-> node.env],
     err |-> Nil]

\* string(x): the bytes of the names and texts the documents use
Bytes(s) ==
    CASE s = "" -> <<>>
      [] s = "Doc" -> <<"D","o","c">>
      [] s = "Install" -> <<"I","n","s","t","a","l","l">>
      [] s = "Usage" -> <<"U","s","a","g","e">>
      [] s = "Quick Start" -> <<"Q","u","i","c","k"," ","S","t","a","r","t">>
      [] s = "Notes" -> <<"N","o","t","e","s">>
      [] s = "intro" -> <<"i","n","t","r","o">>
      [] s = "run" -> <<"r","u","n">>
      [] s = "Install dependencies" -> <<"I","n","s","t","a","l","l"," ","d","e","p","e","n","d","e","n","c","i","e","s">>
      [] s = "item" -> <<"i","t","e","m">>
      [] s = "Deep" -> <<"D","e","e","p">>
      [] s = "Deeper" -> <<"D","e","e","p","e","r">>
      [] s = "Missing" -> <<"M","i","s","s","i","n","g">>

\* The error of a caller's Contenter whose Materialize fails
ErrMaterialize == ErrorsNew(<<"m","a","t","e","r","i","a","l","i","z","e"," ","f","a","i","l","e","d">>)

\* A node of a type the caller wrote: Type() returns kind, and impl says what
\* its Materialize does ("failing": returns an error; "noshell": returns no
\* metadata; "nocommand": returns only the "Shell" key; "plain": returns its
\* content; "node": the type has no Materialize, Identifier or Children)
Custom(kind, impl) == [Executable(sSh, <<sEcho>>, <<>>) EXCEPT !.kind = kind, !.impl = impl]

\* Contenter.Materialize of every content node but Remote: the content, the
\* metadata map and the error
Materialize(node) ==
    LET mc(text, metadata) ==
            [Type |-> node.kind, Content |-> text, Metadata |-> metadata,
             err |-> Nil]
    IN  CASE node.impl = "failing" ->
               [Type |-> node.kind, Content |-> <<>>, Metadata |-> <<>>,
                err |-> ErrMaterialize]
          [] node.impl = "noshell" -> mc(Join(node.cmd, <<" ">>), <<>>)
          [] node.impl = "nocommand" ->
               mc(Join(node.cmd, <<" ">>), [Shell |-> node.shell])
          [] node.impl = "plain" -> mc(Join(node.cmd, <<" ">>), <<>>)
          [] node.impl = "repo" /\ node.kind = "Executable" ->
               MaterializeExecutable(node)
          [] node.impl = "repo" /\ node.kind = "CodeBlock" ->
               mc(Join(node.cmd, <<" ">>), [BlockType |-> node.shell])
          [] node.impl = "repo" /\ node.kind = "TableRow" ->
               mc(<<>>, [Items |-> node.cmd])
          [] node.impl = "repo" /\ node.kind = "Link" ->
               mc(Bytes(node.name), [Url |-> node.shell])
          [] node.impl = "repo"
               /\ node.kind \in {"Header", "Text", "Code", "BlockQuote", "Comment"} ->
               mc(Bytes(node.name), <<>>)

ErrMissingKey == ErrorsNew(<<"m","i","s","s","i","n","g"," ","m","e","t","a","d","a","t","a"," ","k","e","y">>)

NoCommandPlan == [plan |-> NoPlan, err |-> Nil]

\* Executioner.renderExecutable: the plan and the error
ExecRenderExecutable(mc, contextPath) ==
    IF "Shell" \notin DOMAIN mc.Metadata THEN NoCommandPlan
    ELSE IF "Command" \notin DOMAIN mc.Metadata
    THEN [plan |-> NoPlan, err |-> ErrMissingKey]
    ELSE IF "Environment" \notin DOMAIN mc.Metadata
    THEN [plan |-> NoPlan, err |-> ErrMissingKey]
    ELSE [plan |-> [Shell |-> mc.Metadata.Shell,
                    Args |-> mc.Metadata.Command,
                    Context |-> Current(contextPath),
                    Environment |-> mc.Metadata.Environment],
          err |-> Nil]

RECURSIVE ExecRenderChildren(_, _)
RECURSIVE ExecRenderStructureNode(_, _)
RECURSIVE ExecRenderWithTracking(_, _)
RECURSIVE ExecRenderWithTrackingParagraphs(_, _)

\* Executioner.renderChildren, over the children still to handle
ExecRenderChildren(children, contextPath) ==
    IF children = <<>> THEN [plans |-> <<>>, err |-> Nil]
    ELSE LET first == ExecRenderWithTracking(Head(children), contextPath)
         IN  IF first.err # Nil THEN [plans |-> <<>>, err |-> first.err]
             ELSE LET rest == ExecRenderChildren(Tail(children), contextPath)
                  IN  IF rest.err # Nil THEN rest
                      ELSE [plans |-> first.plans \o rest.plans, err |-> Nil]

\* Executioner.renderStructureNode
ExecRenderStructureNode(node, contextPath) ==
    ExecRenderChildren(node.children, Push(contextPath, Identifier(node)))

\* renderWithTracking descending into paragraphs as well
ExecRenderWithTrackingParagraphs(node, contextPath) ==
    IF node.kind \in {"Document", "Section", "List", "Paragraph"}
    THEN LET r == ExecRenderStructureNode(node, contextPath)
         IN  IF r.err # Nil THEN [plans |-> <<>>, err |-> Nil] ELSE r
    ELSE IF node.kind = "Executable"
    THEN LET mc == Materialize(node)
             cmd == ExecRenderExecutable(mc, contextPath)
         IN  IF mc.err # Nil THEN [plans |-> <<>>, err |-> mc.err]
             ELSE IF cmd.err # Nil THEN [plans |-> <<>>, err |-> cmd.err]
             ELSE [plans |-> <<cmd.plan>>, err |-> Nil]
    ELSE [plans |-> <<>>, err |-> Nil]

\* Executioner.renderWithTracking
ExecRenderWithTracking(node, contextPath) ==
    IF node.kind \in {"Document", "Section", "List"}
    THEN LET r == ExecRenderStructureNode(node, contextPath)
         IN  IF r.err # Nil THEN [plans |-> <<>>, err |-> Nil] ELSE r
    ELSE IF node.kind = "Executable"
    THEN LET mc == Materialize(node)
             cmd == ExecRenderExecutable(mc, contextPath)
         IN  IF mc.err # Nil THEN [plans |-> <<>>, err |-> mc.err]
             ELSE IF cmd.err # Nil THEN [plans |-> <<>>, err |-> cmd.err]
             ELSE [plans |-> <<cmd.plan>>, err |-> Nil]
    ELSE [plans |-> <<>>, err |-> Nil]

\* Executioner.Render
ExecutionerRender(node) ==
    LET r == ExecRenderWithTracking(node, <<>>)
    IN  IF r.err # Nil THEN [plans |-> <<>>, err |-> r.err] ELSE r

\* ------------------------------------------------------------------------
\* render.go: the Markdown renderer
\* ------------------------------------------------------------------------

\* A run-time panic (a failed type assertion, strings.Repeat with a negative
\* count): Render does not return
ErrPanic == [sentinel |-> "panic", msg |-> <<>>]

ErrUnhandledStructure == ErrorsNew(<<"u","n","h","a","n","d","l","e","d"," ","s","t","r","u","c","t","u","r","e"," ","n","o","d","e"," ","t","y","p","e">>)

ErrUnknownContent == ErrorsNew(<<"u","n","k","n","o","w","n"," ","c","o","n","t","e","n","t"," ","n","o","d","e"," ","t","y","p","e">>)

\* The error of an io.Reader that cannot be read
ErrRead == ErrorsNew(<<"r","e","a","d"," ","f","a","i","l","e","d">>)

\* What a render step returns: the text, the error, and the readers afterwards
MdOk(text, rd) == [text |-> text, err |-> Nil, rd |-> rd]

MdFail(err, rd) == [text |-> <<>>, err |-> err, rd |-> rd]

\* strings.Repeat for a count that is not negative
RECURSIVE Repeat(_, _)
Repeat(s, count) == IF count <= 0 THEN <<>> ELSE s \o Repeat(s, count - 1)

\* ContextPath.CurrentLevel
CurrentLevel(c) == IF Len(c) = 0 THEN -1 ELSE Current(c).Level

\* Markdown.writeHeader
WriteHeader(text, level) == Repeat(<<"#">>, level) \o <<" ">> \o text \o <<"\n", "\n">>

\* The node's type has the methods of Structurer
IsStructurer(node) ==
    \/ node.impl = "structure"
    \/ node.impl = "repo"
         /\ node.kind \in {"Document", "Section", "Paragraph", "List", "Table"}

\* The node's type has the methods of Contenter
IsContenter(node) ==
    \/ node.impl \in {"failing", "plain", "noshell", "nocommand"}
    \/ node.impl = "repo"
         /\ node.kind \in {"Header", "Link", "Text", "Code", "CodeBlock",
                           "TableRow", "BlockQuote", "Executable", "Remote",
                           "Comment"}

\* Remote.Materialize reading a copy of the source and leaving the reader
\* where it was
MaterializeRemoteKeepsSource(node, rd) ==
    IF rd[node.reader].fails
    THEN [Type |-> "Remote", Content |-> <<>>, Metadata |-> <<>>,
          err |-> ErrRead, rd |-> rd]
    ELSE [Type |-> "Remote", Content |-> rd[node.reader].data, Metadata |-> <<>>,
          err |-> Nil, rd |-> rd]

\* Remote.Materialize: io.ReadAll takes what is left in the reader
MaterializeRemote(node, rd) ==
    IF rd[node.reader].fails
    THEN [Type |-> "Remote", Content |-> <<>>, Metadata |-> <<>>,
          err |-> ErrRead, rd |-> rd]
    ELSE [Type |-> "Remote", Content |-> rd[node.reader].data, Metadata |-> <<>>,
          err |-> Nil,
          rd |-> IF rd[node.reader].rewinds THEN rd
                 ELSE [rd EXCEPT ![node.reader].data = <<>>]]

\* ListTypeE.Prefix
Prefix(typeOfList) == IF typeOfList = "NUMBERED" THEN <<"1", ".">> ELSE <<"-">>

\* The grave accent (U+0060) that fences code
Backquote == "U+0060"

\* Markdown.renderBlockofCode
RenderBlockofCode(typeHint, text) ==
    <<Backquote, Backquote, Backquote>> \o typeHint \o <<"\n">> \o text \o <<"\n">> \o <<Backquote, Backquote, Backquote>>

\* Markdown.renderContent
MdRenderContent(node, contextPath, rd) ==
    LET mc == IF node.kind = "Remote" /\ node.impl = "repo"
              THEN MaterializeRemote(node, rd) ELSE Materialize(node)
        rd2 == IF node.kind = "Remote" /\ node.impl = "repo" THEN mc.rd ELSE rd
    IN  IF mc.err # Nil THEN MdFail(mc.err, rd2)
        ELSE CASE node.kind = "Header" ->
                    IF CurrentLevel(contextPath) < 0 THEN MdFail(ErrPanic, rd2)
                    ELSE MdOk(WriteHeader(mc.Content, CurrentLevel(contextPath)), rd2)
               [] node.kind = "Link" ->
                    IF "Url" \notin DOMAIN mc.Metadata THEN MdOk(<<>>, rd2)
                    ELSE MdOk(<<"[">> \o mc.Content \o <<"]", "(">>
                              \o mc.Metadata.Url \o <<")">>, rd2)
               [] node.kind = "Text" -> MdOk(mc.Content, rd2)
               [] node.kind = "Code" -> MdOk(<<Backquote>> \o mc.Content \o <<Backquote>>, rd2)
               [] node.kind = "CodeBlock" ->
                    IF "BlockType" \notin DOMAIN mc.Metadata THEN MdOk(<<>>, rd2)
                    ELSE MdOk(RenderBlockofCode(mc.Metadata.BlockType, mc.Content), rd2)
               [] node.kind = "BlockQuote" -> MdOk(<<">", " ">> \o mc.Content, rd2)
               [] node.kind = "Executable" ->
                    IF "Shell" \notin DOMAIN mc.Metadata THEN MdOk(<<>>, rd2)
                    ELSE MdOk(RenderBlockofCode(mc.Metadata.Shell, mc.Content), rd2)
               [] node.kind = "TableRow" ->
                    IF "Items" \notin DOMAIN mc.Metadata THEN MdFail(ErrMissingKey, rd2)
                    ELSE MdOk(<<"|", " ">> \o Join(mc.Metadata.Items, <<" ", "|", " ">>)
                              \o <<" ", "|">>, rd2)
               [] node.kind = "Remote" -> MdOk(mc.Content, rd2)
               [] node.kind = "Comment" ->
                    MdOk(<<"<", "!", "-", "-", " ">> \o mc.Content
                         \o <<" ", "-", "-", ">">>, rd2)
               [] OTHER -> MdFail(ErrUnknownContent, rd2)

RECURSIVE MdRenderChildren(_, _, _)
RECURSIVE MdRenderWithTracking(_, _, _)

\* Markdown.renderChildren, over the children still to handle: the texts of
\* the children, or the first error
MdRenderChildren(children, contextPath, rd) ==
    IF children = <<>> THEN [texts |-> <<>>, err |-> Nil, rd |-> rd]
    ELSE LET first == MdRenderWithTracking(Head(children), contextPath, rd)
         IN  IF first.err # Nil
             THEN [texts |-> <<>>, err |-> first.err, rd |-> first.rd]
             ELSE LET rest == MdRenderChildren(Tail(children), contextPath, first.rd)
                  IN  IF rest.err # Nil THEN rest
                      ELSE [texts |-> <<first.text>> \o rest.texts, err |-> Nil,
                            rd |-> rest.rd]

\* Markdown.renderParagraph
MdRenderParagraph(p, contextPath, rd) ==
    LET childContent == MdRenderChildren(p.children, contextPath, rd)
    IN  IF childContent.err # Nil THEN MdFail(childContent.err, childContent.rd)
        ELSE MdOk(Join(childContent.texts, <<" ">>), childContent.rd)

\* Frontmatter.Empty: len(f.Data) == 0
Empty(data) == Len(data.entries) = 0

\* HasFrontmatter asking only whether there is an entry
HasFrontmatterByEntries(d) == ~Empty(d.data)

\* Document.HasFrontmatter
HasFrontmatter(d) ==
    IF ~d.data.isNil THEN TRUE
    ELSE IF ~Empty(d.data) THEN TRUE
    ELSE FALSE

\* The lines yaml.Marshal writes for the entries of a map, in key order
RECURSIVE YamlLines(_)
YamlLines(entries) ==
    IF entries = <<>> THEN <<>>
    ELSE Head(entries).key \o <<":", " ">> \o Head(entries).value \o <<"\n">>
         \o YamlLines(Tail(entries))

\* yaml.Marshal of a map of strings: {} for a map without entries
YamlMarshal(data) ==
    IF Empty(data) THEN <<"{", "}", "\n">> ELSE YamlLines(data.entries)

\* Markdown.renderFrontmatter
RenderFrontmatter(data) ==
    <<"-", "-", "-", "\n">> \o YamlMarshal(data) \o <<"\n">>
    \o <<"-", "-", "-", "\n", "\n">>

\* Markdown.renderDocument
MdRenderDocument(d, contextPath, rd) ==
    LET ctxPath == Push(contextPath, Identifier(d))
        childContent == MdRenderChildren(d.children, ctxPath, rd)
        level == IF CurrentLevel(ctxPath) > 5 THEN 5 ELSE CurrentLevel(ctxPath)
        frontmatter == IF HasFrontmatter(d) THEN RenderFrontmatter(d.data)
                       ELSE <<>>
    IN  IF childContent.err # Nil THEN MdFail(childContent.err, childContent.rd)
        ELSE MdOk(frontmatter \o WriteHeader(Bytes(Identifier(d)), level)
                  \o Join(childContent.texts, <<"\n", "\n">>) \o <<"\n">>,
                  childContent.rd)

\* renderSection writing the level as it is
MdRenderSectionNoClamp(s, contextPath, rd) ==
    LET ctxPath == Push(contextPath, Identifier(s))
        childContent == MdRenderChildren(s.children, ctxPath, rd)
    IN  IF childContent.err # Nil THEN MdFail(childContent.err, childContent.rd)
        ELSE MdOk(WriteHeader(Bytes(Identifier(s)), CurrentLevel(ctxPath))
                  \o Join(childContent.texts, <<"\n", "\n">>),
                  childContent.rd)

\* Markdown.renderSection
MdRenderSection(s, contextPath, rd) ==
    LET ctxPath == Push(contextPath, Identifier(s))
        childContent == MdRenderChildren(s.children, ctxPath, rd)
        level == IF CurrentLevel(ctxPath) > 5 THEN 5 ELSE CurrentLevel(ctxPath)
    IN  IF childContent.err # Nil THEN MdFail(childContent.err, childContent.rd)
        ELSE MdOk(WriteHeader(Bytes(Identifier(s)), level)
                  \o Join(childContent.texts, <<"\n", "\n">>),
                  childContent.rd)

\* The header separator row of renderTable
RECURSIVE Dividers(_, _)
Dividers(i, numDividers) ==
    IF i >= numDividers THEN <<>>
    ELSE <<"-", "-", "-", "-">>
         \o (IF i < numDividers - 1 THEN <<" ", "|", " ">> ELSE <<>>)
         \o Dividers(i + 1, numDividers)

\* Markdown.renderTable; the Headers of a Table are its cmd
MdRenderTable(t, contextPath, rd) ==
    LET childContent == MdRenderChildren(t.children, contextPath, rd)
    IN  IF childContent.err # Nil THEN MdFail(childContent.err, childContent.rd)
        ELSE MdOk(<<"|", " ">> \o Join(t.cmd, <<" ", "|", " ">>) \o <<" ", "|", "\n">>
                  \o <<"|", " ">> \o Dividers(0, Len(t.cmd)) \o <<" ", "|", "\n">>
                  \o Join(childContent.texts, <<"\n">>),
                  childContent.rd)

\* The lines renderList writes for the items
RECURSIVE ListLines(_, _)
ListLines(typeOfList, items) ==
    IF items = <<>> THEN <<>>
    ELSE Prefix(typeOfList) \o <<" ">> \o Head(items) \o <<"\n">>
         \o ListLines(typeOfList, Tail(items))

\* Markdown.renderList; the TypeOfList of a List is its name
MdRenderList(l, contextPath, rd) ==
    LET childContent == MdRenderChildren(l.children, contextPath, rd)
    IN  IF childContent.err # Nil THEN MdFail(childContent.err, childContent.rd)
        ELSE MdOk(ListLines(l.name, childContent.texts), childContent.rd)

\* Markdown.renderStructureNode; the type assertions to *Document, *List and
\* *Table panic for a node held by value
MdRenderStructureNode(structureNode, contextPath, rd) ==
    CASE structureNode.kind = "Document" ->
            IF ~structureNode.ptr THEN MdFail(ErrPanic, rd)
            ELSE MdRenderDocument(structureNode, contextPath, rd)
      [] structureNode.kind = "Section" ->
            MdRenderSection(structureNode, contextPath, rd)
      [] structureNode.kind = "Paragraph" ->
            MdRenderParagraph(structureNode, contextPath, rd)
      [] structureNode.kind = "List" ->
            IF ~structureNode.ptr THEN MdFail(ErrPanic, rd)
            ELSE MdRenderList(structureNode, contextPath, rd)
      [] structureNode.kind = "Table" ->
            IF ~structureNode.ptr THEN MdFail(ErrPanic, rd)
            ELSE MdRenderTable(structureNode, contextPath, rd)
      [] OTHER -> MdFail(ErrUnhandledStructure, rd)

\* Markdown.renderWithTracking; the type assertions to Structurer and
\* Contenter panic for a node whose type lacks the methods
MdRenderWithTracking(node, contextPath, rd) ==
    IF node.kind \in {"Document", "Section", "Paragraph", "List", "Table",
                      "Frontmatter"}
    THEN IF ~IsStructurer(node) THEN MdFail(ErrPanic, rd)
         ELSE MdRenderStructureNode(node, contextPath, rd)
    ELSE IF ~IsContenter(node) THEN MdFail(ErrPanic, rd)
         ELSE MdRenderContent(node, contextPath, rd)

\* Markdown.Render
MarkdownRender(node, rd) == MdRenderWithTracking(node, <<>>, rd)

\* ------------------------------------------------------------------------
\* Specification of authoring a document and planning it
\* ------------------------------------------------------------------------

MaxNodes == 4

\* The node at a path of child indexes
RECURSIVE NodeAt(_, _)
NodeAt(node, path) ==
    IF path = <<>> THEN node
    ELSE NodeAt(node.children[Head(path)], Tail(path))

\* The paths of all nodes of a tree
RECURSIVE PathsOf(_)
PathsOf(node) ==
    {<<>>} \cup UNION {{<<i>> \o q : q \in PathsOf(node.children[i])} :
                         i \in 1..Len(node.children)}

\* The number of nodes below the root
Size(node) == Cardinality(PathsOf(node)) - 1

\* The tree with the node at path replaced
RECURSIVE ReplaceAt(_, _, _)
ReplaceAt(node, path, new) ==
    IF path = <<>> THEN new
    ELSE [node EXCEPT !.children[Head(path)] =
              ReplaceAt(node.children[Head(path)], Tail(path), new)]

\* append(s.Content, child) on the node at path
AppendChild(root, path, child) ==
    LET target == NodeAt(root, path)
    IN  ReplaceAt(root, path,
                  [target EXCEPT !.children = Append(target.children, child)])

\* The sections a caller still holds a pointer to: those reached from the
\* document through children held by pointer
LiveSections(root) ==
    {q \in PathsOf(root) :
        /\ q # <<>>
        /\ NodeAt(root, q).kind = "Section"
        /\ \A k \in 1..Len(q) : NodeAt(root, SubSeq(q, 1, k)).ptr}

SectionNames == {"Install", "Usage"}

ExecutableChoices ==
    { [shell |-> sBash, cmd |-> <<sEcho, sHi>>],
      [shell |-> sSh, cmd |-> <<sGo>>] }

\* Paragraph values handed to AddParagraph; Items is a []Node
ParagraphPool ==
    { Container("Paragraph", FALSE, "", <<Leaf("Text", "intro")>>),
      Container("Paragraph", FALSE, "",
                <<Leaf("Text", "run"), Executable(sSh, <<sRm>>, <<>>)>>) }

\* Section values handed to AddSection
SectionPool ==
    { Container("Section", FALSE, "Quick Start",
                <<Leaf("Text", "Install dependencies"),
                  Executable(sBash, <<sGo, sHi>>, <<sApiKey>>)>>),
      Container("Section", FALSE, "Notes",
                <<Container("Paragraph", FALSE, "",
                            <<Executable(sBash, <<sSudo>>, <<>>)>>),
                  Container("Table", FALSE, "", <<Leaf("TableRow", "")>>)>>) }

TreeInit ==
    /\ doc = NewDocument("Doc")
    /\ planOut = NotRendered
    /\ AuxIdle
    /\ ValidateIdle /\ RunIdle /\ TableIdle

TreeFrame == UNCHANGED <<validateVars, runVars, tableVars, auxVars>>

\* The document is still being written and may take another node
CanInsert ==
    planOut = NotRendered /\ mdOut = NotRenderedText /\ Size(doc) < MaxNodes

\* Document.CreateSection(name)
DocumentCreateSection ==
    /\ TreeFrame /\ CanInsert
    /\ \E name \in SectionNames :
         doc' = AppendChild(doc, <<>>, Container("Section", TRUE, name, <<>>))
    /\ UNCHANGED planOut

\* Document.AddSection(section)
DocumentAddSection ==
    /\ TreeFrame /\ CanInsert
    /\ \E section \in SectionPool : doc' = AppendChild(doc, <<>>, section)
    /\ UNCHANGED planOut

\* Section.CreateSection(name)
SectionCreateSection ==
    /\ TreeFrame /\ CanInsert
    /\ \E s \in LiveSections(doc), name \in SectionNames :
         doc' = AppendChild(doc, s, Container("Section", TRUE, name, <<>>))
    /\ UNCHANGED planOut

\* Section.AddSection(section)
SectionAddSection ==
    /\ TreeFrame /\ CanInsert
    /\ \E s \in LiveSections(doc), section \in SectionPool :
         doc' = AppendChild(doc, s, section)
    /\ UNCHANGED planOut

\* Section.AddParagraph(paragraph)
SectionAddParagraph ==
    /\ TreeFrame /\ CanInsert
    /\ \E s \in LiveSections(doc), paragraph \in ParagraphPool :
         doc' = AppendChild(doc, s, paragraph)
    /\ UNCHANGED planOut

\* Section.WriteCodeBlock(blockType, cmd, executable)
SectionWriteCodeBlock ==
    /\ TreeFrame /\ CanInsert
    /\ \E s \in LiveSections(doc), c \in ExecutableChoices, executable \in BOOLEAN :
         doc' = AppendChild(doc, s,
                    IF executable THEN Executable(c.shell, c.cmd, <<>>)
                    ELSE CodeBlock(c.shell, c.cmd))
    /\ UNCHANGED planOut

\* Section.AddList(listType, items)
SectionAddList ==
    /\ TreeFrame /\ CanInsert
    /\ \E s \in LiveSections(doc) :
         doc' = AppendChild(doc, s,
                    Container("List", FALSE, "", <<Leaf("Text", "item")>>))
    /\ UNCHANGED planOut

\* Executioner.Render(doc)
Plan ==
    /\ TreeFrame
    /\ planOut = NotRendered
    /\ planOut' = ExecutionerRender(doc)
    /\ UNCHANGED doc

TreeNext ==
    \/ DocumentCreateSection
    \/ DocumentAddSection
    \/ SectionCreateSection
    \/ SectionAddSection
    \/ SectionAddParagraph
    \/ SectionWriteCodeBlock
    \/ SectionAddList
    \/ Plan

SpecTree == TreeInit /\ [][TreeNext]_vars

\* ------------------------------------------------------------------------
\* Specification of planning a document that holds nodes of the caller's own
\* types (implementations of Node and Contenter)
\* ------------------------------------------------------------------------

\* Section values whose Content holds a node of the caller's: an executable
\* whose Materialize fails, executables whose metadata lacks a key, a node of
\* a kind the renderers do not know
CustomSectionPool ==
    { Container("Section", FALSE, "Notes",
                <<Custom("Executable", "failing")>>),
      Container("Section", FALSE, "Notes",
                <<Custom("Executable", "nocommand")>>),
      Container("Section", FALSE, "Notes",
                <<Custom("Executable", "noshell")>>),
      Container("Section", FALSE, "Notes",
                <<Custom("Unknown", "node")>>) }

\* Document.AddSection(section), the section holding a node of the caller's
DocumentAddCustomSection ==
    /\ TreeFrame /\ CanInsert
    /\ \E section \in CustomSectionPool : doc' = AppendChild(doc, <<>>, section)
    /\ UNCHANGED planOut

\* Section.AddSection(section), the section holding a node of the caller's
SectionAddCustomSection ==
    /\ TreeFrame /\ CanInsert
    /\ \E s \in LiveSections(doc), section \in CustomSectionPool :
         doc' = AppendChild(doc, s, section)
    /\ UNCHANGED planOut

CustomNext ==
    \/ DocumentCreateSection
    \/ DocumentAddSection
    \/ SectionCreateSection
    \/ SectionAddSection
    \/ SectionAddParagraph
    \/ SectionWriteCodeBlock
    \/ SectionAddList
    \/ DocumentAddCustomSection
    \/ SectionAddCustomSection
    \/ Plan

SpecCustom == TreeInit /\ [][CustomNext]_vars

\* ------------------------------------------------------------------------
\* Specification of authoring a document and rendering it as Markdown
\* ------------------------------------------------------------------------

\* Remote{Reader: r}, r being readers[reader]
Remote(reader) == [Leaf("Remote", "") EXCEPT !.reader = reader]

\* The readers callers hand to Remote: a strings.Reader over a text, a reader
\* of the caller's that starts over once it has reported the end of its text,
\* and a reader whose Read returns an error
ReaderChoices ==
    { [data |-> <<"r","e","m","o","t","e"," ","t","e","x","t">>, fails |-> FALSE,
       rewinds |-> FALSE],
      [data |-> <<"r","e","m","o","t","e"," ","t","e","x","t">>, fails |-> FALSE,
       rewinds |-> TRUE],
      [data |-> <<>>, fails |-> TRUE, rewinds |-> FALSE] }

\* Section values that hold a section of their own
NestedSectionPool ==
    { Container("Section", FALSE, "Deep",
                <<Container("Section", FALSE, "Deeper", <<>>)>>) }

\* Section values whose Content holds a node of the caller's: a Contenter and
\* a plain Node of a kind outside ContentType, a Structurer of FrontmatterType
\* and a Contenter whose Materialize fails
CustomContentPool ==
    { Container("Section", FALSE, "Notes", <<Custom("Unknown", "plain")>>),
      Container("Section", FALSE, "Notes", <<Custom("Unknown", "node")>>),
      Container("Section", FALSE, "Notes", <<Custom("Frontmatter", "structure")>>),
      Container("Section", FALSE, "Notes", <<Custom("Text", "failing")>>) }

MdFrame ==
    UNCHANGED <<validateVars, runVars, tableVars, serviceVars, authorVars,
                extraVars>>

\* Section.WriteRemoteContent(remote)
SectionWriteRemoteContent ==
    /\ MdFrame /\ CanInsert
    /\ \E s \in LiveSections(doc), r \in ReaderChoices :
         /\ readers' = Append(readers, r)
         /\ doc' = AppendChild(doc, s, Remote(Len(readers) + 1))
    /\ UNCHANGED <<planOut, mdOut>>

\* Section.AddSection(section), the section holding a section
SectionAddNestedSection ==
    /\ TreeFrame /\ CanInsert
    /\ \E s \in LiveSections(doc), section \in NestedSectionPool :
         doc' = AppendChild(doc, s, section)
    /\ UNCHANGED planOut

\* Section.AddSection(section), the section holding a node of the caller's
SectionAddCustomContent ==
    /\ TreeFrame /\ CanInsert
    /\ \E s \in LiveSections(doc), section \in CustomContentPool :
         doc' = AppendChild(doc, s, section)
    /\ UNCHANGED planOut

\* Section.CreateList(listType)
SectionCreateList ==
    /\ TreeFrame /\ CanInsert
    /\ \E s \in LiveSections(doc), listType \in {"BULLET", "NUMBERED"} :
         doc' = AppendChild(doc, s, Container("List", TRUE, listType, <<>>))
    /\ UNCHANGED planOut

\* Markdown.Render(doc)
MdRender ==
    /\ MdFrame
    /\ mdOut = NotRenderedText
    /\ LET r == MarkdownRender(doc, readers)
       IN  /\ mdOut' = [text |-> r.text, err |-> r.err]
           /\ readers' = r.rd
    /\ UNCHANGED <<doc, planOut>>

MarkdownNext ==
    \/ DocumentCreateSection
    \/ DocumentAddSection
    \/ SectionCreateSection
    \/ SectionAddSection
    \/ SectionAddParagraph
    \/ SectionCreateList
    \/ SectionWriteRemoteContent
    \/ SectionAddNestedSection
    \/ SectionAddCustomContent
    \/ MdRender

SpecMarkdown == TreeInit /\ [][MarkdownNext]_vars

\* ------------------------------------------------------------------------
\* The Service: RenderFile, CompareFile and PlanScriptExecution over a
\* Repository
\* ------------------------------------------------------------------------

\* os.Open of a path that does not exist
ErrNotExist == ErrorsNew(<<"n","o"," ","s","u","c","h"," ","f","i","l","e"," ","o","r"," ","d","i","r","e","c","t","o","r","y">>)

\* A failed read or write of a file
ErrIO == ErrorsNew(<<"i","n","p","u","t","/","o","u","t","p","u","t"," ","e","r","r","o","r">>)

\* FileRepository.Load; fault says whether reading the open file fails
RepositoryLoad(fs, path, fault) ==
    IF ~fs[path].exists THEN [text |-> <<>>, err |-> ErrNotExist]
    ELSE IF fault THEN [text |-> <<>>, err |-> ErrIO]
    ELSE [text |-> fs[path].data, err |-> Nil]

\* Save leaving the old content in place
RepositorySaveKeepsOld(fs, path, text, fault) ==
    IF fault = "create" THEN [fs |-> fs, err |-> ErrIO]
    ELSE IF fault = "write"
    THEN [fs |-> [fs EXCEPT ![path] = [exists |-> TRUE, data |-> <<>>]],
          err |-> ErrIO]
    ELSE [fs |-> [fs EXCEPT ![path] =
                     [exists |-> TRUE,
                      data |-> IF fs[path].exists THEN fs[path].data ELSE text]],
          err |-> Nil]

\* FileRepository.Save: os.Create truncates the file, WriteFile writes the
\* content; fault says which of the two fails, if any
RepositorySave(fs, path, text, fault) ==
    IF fault = "create" THEN [fs |-> fs, err |-> ErrIO]
    ELSE IF fault = "write"
    THEN [fs |-> [fs EXCEPT ![path] = [exists |-> TRUE, data |-> <<>>]],
          err |-> ErrIO]
    ELSE [fs |-> [fs EXCEPT ![path] = [exists |-> TRUE, data |-> text]],
          err |-> Nil]

\* The printable characters of ASCII from the blank on, in the order of their
\* codes
Printable ==
    <<" ", "!", "\"", "#", "$", "%", "&", "'", "(", ")", "*", "+", ",",
      "-", ".", "/", "0", "1", "2", "3", "4", "5", "6", "7", "8", "9", ":",
      ";", "<", "=", ">", "?", "@", "A", "B", "C", "D", "E", "F", "G", "H",
      "I", "J", "K", "L", "M", "N", "O", "P", "Q", "R", "S", "T", "U", "V",
      "W", "X", "Y", "Z", "[", "\\", "]", "^", "_", Backquote, "a", "b",
      "c", "d", "e", "f", "g", "h", "i", "j", "k", "l", "m", "n", "o", "p",
      "q", "r", "s", "t", "u", "v", "w", "x", "y", "z", "{", "|", "}", "~">>

\* The byte of a character
Ord(c) ==
    IF c = "\n" THEN 10
    ELSE 31 + CHOOSE i \in 1..Len(Printable) : Printable[i] = c

\* base to the power n, modulo m
RECURSIVE PowMod(_, _, _)
PowMod(base, n, m) ==
    IF n = 0 THEN 1
    ELSE LET half == PowMod(base, n \div 2, m)
             sq == (half * half) % m
         IN  IF n % 2 = 0 THEN sq ELSE (sq * base) % m

\* The bytes lo..hi of a text read as the digits of a number to a base,
\* modulo m
RECURSIVE PolyHash(_, _, _, _, _)
PolyHash(text, lo, hi, base, m) ==
    IF lo > hi THEN 0
    ELSE IF lo = hi THEN Ord(text[lo]) % m
    ELSE LET mid == (lo + hi) \div 2
         IN  (PolyHash(text, lo, mid, base, m) * PowMod(base, hi - mid, m)
              + PolyHash(text, mid + 1, hi, base, m)) % m

\* md5.Sum narrowed to two words of 15 bits: a digest of the bytes and of
\* their number, which many texts share
Md5Sum(text) ==
    << (PolyHash(text, 1, Len(text), 31, 32749) * 31 + Len(text)) % 32749,
       (PolyHash(text, 1, Len(text), 37, 32719) * 37 + Len(text)) % 32719 >>

HexDigits == <<"0","1","2","3","4","5","6","7","8","9","a","b","c","d","e","f">>

\* A word of the digest as four hexadecimal digits
HexWord(n) ==
    << HexDigits[((n \div 4096) % 16) + 1], HexDigits[((n \div 256) % 16) + 1],
       HexDigits[((n \div 16) % 16) + 1], HexDigits[(n % 16) + 1] >>

\* hex.EncodeToString
EncodeToString(digest) == HexWord(digest[1]) \o HexWord(digest[2])

\* RenderFile saving what Render returned whether or not it failed
ServiceRenderFileSavesAnyway(document, rd, fs, outpath, fault) ==
    LET r == MarkdownRender(document, rd)
        saved == RepositorySave(fs, outpath, r.text, fault)
    IN  IF r.err # Nil THEN [err |-> r.err, fs |-> saved.fs, rd |-> r.rd]
        ELSE [err |-> saved.err, fs |-> saved.fs, rd |-> r.rd]

\* Service.RenderFile: the error, the storage and the readers afterwards
ServiceRenderFile(document, rd, fs, outpath, fault) ==
    LET r == MarkdownRender(document, rd)
        saved == RepositorySave(fs, outpath, r.text, fault)
    IN  IF r.err # Nil THEN [err |-> r.err, fs |-> fs, rd |-> r.rd]
        ELSE [err |-> saved.err, fs |-> saved.fs, rd |-> r.rd]

\* CompareFile with Matches true whenever both texts were obtained
ServiceCompareFileAlwaysMatches(document, rd, fs, pathToFile, fault) ==
    LET r == MarkdownRender(document, rd)
        loaded == RepositoryLoad(fs, pathToFile, fault)
    IN  IF r.err # Nil THEN [result |-> ZeroComparison, err |-> r.err, rd |-> r.rd]
        ELSE IF loaded.err # Nil
        THEN [result |-> ZeroComparison, err |-> loaded.err, rd |-> r.rd]
        ELSE [result |-> [Matches |-> TRUE,
                          DocumentHash |-> EncodeToString(Md5Sum(r.text)),
                          FileHash |-> EncodeToString(Md5Sum(loaded.text))],
              err |-> Nil, rd |-> r.rd]

\* Service.CompareFile: the ComparisonResult, the error and the readers
\* afterwards
ServiceCompareFile(document, rd, fs, pathToFile, fault) ==
    LET r == MarkdownRender(document, rd)
        loaded == RepositoryLoad(fs, pathToFile, fault)
    IN  IF r.err # Nil THEN [result |-> ZeroComparison, err |-> r.err, rd |-> r.rd]
        ELSE IF loaded.err # Nil
        THEN [result |-> ZeroComparison, err |-> loaded.err, rd |-> r.rd]
        ELSE [result |-> [Matches |-> Md5Sum(r.text) = Md5Sum(loaded.text),
                          DocumentHash |-> EncodeToString(Md5Sum(r.text)),
                          FileHash |-> EncodeToString(Md5Sum(loaded.text))],
              err |-> Nil, rd |-> r.rd]

\* The loop of PlanScriptExecution: the plans whose Context.Name is
\* sectionName, in their order
RECURSIVE FilterPlans(_, _)
FilterPlans(executionPlan, sectionName) ==
    IF executionPlan = <<>> THEN <<>>
    ELSE (IF Head(executionPlan).Context.Name = sectionName
          THEN <<Head(executionPlan)>> ELSE <<>>)
         \o FilterPlans(Tail(executionPlan), sectionName)

\* fmt.Errorf("no executable blocks found for section '%s'", sectionName)
ErrNoBlocks(sectionName) ==
    ErrorsNew(<<"n","o"," ","e","x","e","c","u","t","a","b","l","e"," ","b","l","o","c","k","s"," ","f","o","u","n","d"," ","f","o","r"," ","s","e","c","t","i","o","n"," ","'">>
              \o Bytes(sectionName) \o <<"'">>)

\* PlanScriptExecution returning an empty list without an error when no plan
\* matches
ServicePlanScriptExecutionNoError(document, sectionName) ==
    LET executionPlan == ExecutionerRender(document)
        commands == FilterPlans(executionPlan.plans, sectionName)
    IN  IF executionPlan.err # Nil THEN [plans |-> <<>>, err |-> executionPlan.err]
        ELSE IF sectionName = "" THEN [plans |-> executionPlan.plans, err |-> Nil]
        ELSE [plans |-> commands, err |-> Nil]

\* Service.PlanScriptExecution
ServicePlanScriptExecution(document, sectionName) ==
    LET executionPlan == ExecutionerRender(document)
        commands == FilterPlans(executionPlan.plans, sectionName)
    IN  IF executionPlan.err # Nil THEN [plans |-> <<>>, err |-> executionPlan.err]
        ELSE IF sectionName = "" THEN [plans |-> executionPlan.plans, err |-> Nil]
        ELSE IF Len(commands) = 0
        THEN [plans |-> <<>>, err |-> ErrNoBlocks(sectionName)]
        ELSE [plans |-> commands, err |-> Nil]

\* TaskRunner.Run as a function of the plan, the configuration, the
\* environment and the way the process ends: its exit code, or -1 when it
\* cannot be started
TaskRunnerRun(plan, cfg, env, exit) ==
    LET checked == RunValidation(plan, cfg, NewResult(plan))
        ready == RunEnvironment(plan, env, checked.result)
    IN  IF checked.pc = "return" THEN checked.result
        ELSE IF ready.pc = "return" THEN ready.result
        ELSE IF Len(plan.Args) = 0 THEN Fail(ready.result, ErrorsNew(MsgNoCommand))
        ELSE IF exit = 0 THEN [ready.result EXCEPT !.Status = COMPLETED]
        ELSE IF exit = 1 THEN Fail(ready.result, ErrExit)
        ELSE Fail(ready.result, ErrStart)

RECURSIVE RunExecutionPlan(_, _, _, _)

\* RunExecutionPlan(plans, runner): one result for each plan, in order
RunExecutionPlan(commandPlans, cfg, env, exits) ==
    IF commandPlans = <<>> THEN <<>>
    ELSE <<TaskRunnerRun(Head(commandPlans), cfg, env, Head(exits))>>
         \o RunExecutionPlan(Tail(commandPlans), cfg, env, Tail(exits))

\* Service.ExecuteScript: the results and the error; exits[i] is the way the
\* process of the i-th command ends
ServiceExecuteScript(document, sectionName, cfg, env, exits) ==
    CHOOSE out \in
      { IF executionPlan.err # Nil
        THEN [results |-> <<>>, err |-> executionPlan.err]
        ELSE [results |-> RunExecutionPlan(executionPlan.plans, cfg, env, exits),
              err |-> Nil]
        : executionPlan \in {ServicePlanScriptExecution(document, sectionName)} }
      : TRUE

\* ------------------------------------------------------------------------
\* Specification of the Service called with the documents of its callers
\* ------------------------------------------------------------------------

\* The readers behind the Remote nodes of the callers' documents
ServiceReaders ==
    << [data |-> <<"r","e","m","o","t","e"," ","t","e","x","t">>, fails |-> FALSE,
        rewinds |-> FALSE],
       [data |-> <<"r","e","m","o","t","e"," ","t","e","x","t">>, fails |-> FALSE,
        rewinds |-> TRUE],
       [data |-> <<>>, fails |-> TRUE, rewinds |-> FALSE] >>

\* document.CreateSection(name) followed by the writes that give the section
\* its content
WithSection(document, name, sectionContent) ==
    AppendChild(document, <<>>, Container("Section", TRUE, name, sectionContent))

\* The documents callers hand to the Service: an empty one, one with
\* executable and plain blocks of code under sections that share names and
\* nest, and one with a Remote over each of the readers
ServiceDocuments ==
    { NewDocument("Doc"),
      WithSection(
          WithSection(
              WithSection(NewDocument("Doc"), "Install",
                          <<Executable(sBash, <<sEcho, sHi>>, <<>>),
                            CodeBlock(sSh, <<sRm>>)>>),
              "Usage",
              <<Executable(sSh, <<sGo>>, <<>>),
                Container("Section", TRUE, "Install",
                          <<Executable(sBash, <<sGo, sHi>>, <<sApiKey>>)>>)>>),
          "Install", <<Executable(sSh, <<sEcho>>, <<>>)>>),
      WithSection(NewDocument("Doc"), "Install",
                  <<Remote(1), Executable(sSh, <<sGo>>, <<>>)>>),
      WithSection(NewDocument("Doc"), "Usage", <<Remote(2)>>),
      WithSection(NewDocument("Doc"), "Notes", <<Remote(3)>>) }

\* The section names callers plan: ALL_SECTIONS, names of sections and a
\* name no section has
PlanSections == {"", "Install", "Usage", "Missing"}

ServiceInit ==
    /\ ValidateIdle /\ RunIdle /\ TableIdle
    /\ doc = NoDoc /\ planOut = NotRendered
    /\ mdOut = NotRenderedText
    /\ readers = ServiceReaders
    /\ ServiceIdle /\ AuthorIdle /\ ExtraIdle

ServiceFrame ==
    UNCHANGED <<validateVars, runVars, tableVars, treeVars, mdOut, authorVars,
                optVars, cliVars, ctxVars, remVars, hdlVars>>

\* The record of an operation of the Service
ServiceOp(name, document, path, section, fault) ==
    [name |-> name, path |-> path, section |-> section, fault |-> fault,
     document |-> document, rd |-> readers]

\* Service.RenderFile(&document, outpath)
RenderFile ==
    /\ ServiceFrame
    /\ \E document \in ServiceDocuments, outpath \in Paths,
          fault \in {"none", "create", "write"} :
         LET out == ServiceRenderFile(document, readers, files, outpath, fault)
         IN  /\ fault = "none" \/ MarkdownRender(document, readers).err = Nil
             /\ svcErr' = out.err
             /\ files' = out.fs
             /\ readers' = out.rd
             /\ svcOp' = ServiceOp("RenderFile", document, outpath, "", fault)
    /\ cmpOut' = ZeroComparison /\ svcPlans' = <<>> /\ svcResults' = <<>>

\* Service.CompareFile(&document, pathToFile)
CompareFile ==
    /\ ServiceFrame
    /\ \E document \in ServiceDocuments, pathToFile \in Paths,
          fault \in {"none", "read"} :
         LET out == ServiceCompareFile(document, readers, files, pathToFile,
                                       fault = "read")
         IN  /\ fault = "read" => (files[pathToFile].exists
                          /\ MarkdownRender(document, readers).err = Nil)
             /\ svcErr' = out.err
             /\ cmpOut' = out.result
             /\ readers' = out.rd
             /\ svcOp' = ServiceOp("CompareFile", document, pathToFile, "", fault)
    /\ svcPlans' = <<>> /\ svcResults' = <<>>
    /\ UNCHANGED files

\* Service.PlanScriptExecution(&document, sectionName)
PlanScriptExecution ==
    /\ ServiceFrame
    /\ \E document \in ServiceDocuments, sectionName \in PlanSections :
         LET out == ServicePlanScriptExecution(document, sectionName)
         IN  /\ svcErr' = out.err
             /\ svcPlans' = out.plans
             /\ svcOp' = ServiceOp("PlanScriptExecution", document, "", sectionName, "none")
    /\ cmpOut' = ZeroComparison /\ svcResults' = <<>>
    /\ UNCHANGED <<files, readers>>

\* The configuration the TaskRunner of the Service was built with
ServiceRunnerConfig ==
    [Timeout |-> 0, AllowedShells |-> <<sBash, sSh>>, AllowedCommands |-> <<>>,
     BlockDangerousCommands |-> TRUE]

\* The environment of the process: API_KEY is set
ServiceEnviron == [n \in EnvNames |-> IF n = sApiKey THEN sValue ELSE Unset]

\* The ways the processes of a batch end: all exit with 0, or every other one
\* fails, the first with exit code 1
ExitChoices == { <<0, 0, 0, 0>>, <<1, 0, 1, 0>> }

\* The documents callers execute: those of ServiceDocuments that differ in
\* their executable blocks
ExecuteDocuments ==
    { d \in ServiceDocuments :
        Len(d.children) = 0 \/ Len(ExecutionerRender(d).plans) > 0 }

\* Service.ExecuteScript(&document, sectionName)
ExecuteScript ==
    /\ ServiceFrame
    /\ \E document \in ExecuteDocuments, sectionName \in PlanSections,
          exits \in ExitChoices :
         \E out \in {ServiceExecuteScript(document, sectionName,
                                           ServiceRunnerConfig, ServiceEnviron,
                                           exits)} :
             /\ svcErr' = out.err
             /\ svcResults' = out.results
             /\ svcOp' = ServiceOp("ExecuteScript", document, "", sectionName, "none")
    /\ cmpOut' = ZeroComparison /\ svcPlans' = <<>>
    /\ UNCHANGED <<files, readers>>

ServiceNext ==
    \/ RenderFile
    \/ CompareFile
    \/ PlanScriptExecution
    \/ ExecuteScript

SpecService == ServiceInit /\ [][ServiceNext]_vars

\* ------------------------------------------------------------------------
\* Specification of two programs writing the same document, the first with
\* the Add* operations, the second with the Create* and Write* operations
\* ------------------------------------------------------------------------

\* Prepending by overwriting the first child
PrependChildReplacing(root, path, child) ==
    LET target == NodeAt(root, path)
    IN  ReplaceAt(root, path,
                  [target EXCEPT !.children =
                       IF target.children = <<>> THEN <<child>>
                       ELSE <<child>> \o Tail(target.children)])

\* append([]Node{content}, s.Content...) on the node at path
PrependChild(root, path, child) ==
    LET target == NodeAt(root, path)
    IN  ReplaceAt(root, path,
                  [target EXCEPT !.children = <<child>> \o target.children])

\* NewSection(name), a Section value
NewSection(name) == Container("Section", FALSE, name, <<>>)

\* TableRow{Values: values}
TableRowOf(values) == [Leaf("TableRow", "") EXCEPT !.cmd = values]

\* Table{Headers: headers, Items: rows}, held by value or by pointer
TableNode(ptr, headers, rows) ==
    [Container("Table", ptr, "", rows) EXCEPT !.cmd = headers]

\* The items callers give a paragraph
AuthorItems == { <<>>, <<Leaf("Text", "intro")>> }

\* The headers callers give a table
AuthorHeaders == <<sEcho, sHi>>

\* The rows callers give a table, none longer than the headers
AuthorRows == { <<>>, <<TableRowOf(<<sGo>>)>>, <<TableRowOf(<<sGo, sHi>>)>> }

\* The items callers give a list
AuthorListItems == { <<>>, <<Leaf("Text", "item")>> }

AuthorInit ==
    /\ ValidateIdle /\ RunIdle /\ TableIdle
    /\ planOut = NotRendered
    /\ RenderIdle /\ ServiceIdle /\ ExtraIdle
    /\ doc = NewDocument("Doc")
    /\ twin = NewDocument("Doc")
    /\ sec = NoDoc
    /\ authOp = NoAuthorOp

AuthorFrame ==
    UNCHANGED <<validateVars, runVars, tableVars, planOut, renderVars,
                serviceVars, extraVars>>

\* The programs may add another node
CanAuthor == Size(twin) < MaxNodes

\* The section the second program is writing: the one CreateSection returned
\* last
OpenSection == <<Len(twin.children)>>

\* The record of an authoring operation
AuthorOp(name, intro, side, twinTouched, twinPath) ==
    [name |-> name, intro |-> intro, side |-> side, twinPath |-> twinPath,
     twinTouched |-> twinTouched, val |-> "",
     before |-> [doc |-> doc, sec |-> sec, twin |-> twin]]

\* NewSection(name) in the first program, Document.CreateSection(name) in the
\* second
AuthorNewSection ==
    /\ AuthorFrame /\ CanAuthor
    /\ sec = NoDoc
    /\ \E name \in SectionNames :
         /\ sec' = NewSection(name)
         /\ twin' = AppendChild(twin, <<>>, Container("Section", TRUE, name, <<>>))
    /\ authOp' = AuthorOp("CreateSection", FALSE, "none", TRUE, <<>>)
    /\ UNCHANGED doc

\* Section.AddParagraph(paragraph) in the first program, Section.WriteParagraph
\* and Paragraph.Text in the second
AuthorParagraph ==
    /\ AuthorFrame /\ CanAuthor
    /\ sec # NoDoc
    /\ \E items \in AuthorItems :
         /\ sec' = AppendChild(sec, <<>>, Container("Paragraph", FALSE, "", items))
         /\ twin' = AppendChild(twin, OpenSection,
                                Container("Paragraph", TRUE, "", items))
    /\ authOp' = AuthorOp("Paragraph", FALSE, "sec", TRUE, OpenSection)
    /\ UNCHANGED doc

\* Section.AddTable(headers, rows) in the first program, Section.CreateTable
\* and Table.AddRow for each row in the second
AuthorTable ==
    /\ AuthorFrame /\ CanAuthor
    /\ sec # NoDoc
    /\ \E rows \in AuthorRows :
         /\ sec' = AppendChild(sec, <<>>, TableNode(FALSE, AuthorHeaders, rows))
         /\ twin' = AppendChild(twin, OpenSection,
                                TableNode(TRUE, AuthorHeaders, rows))
    /\ authOp' = AuthorOp("Table", FALSE, "sec", TRUE, OpenSection)
    /\ UNCHANGED doc

\* Section.AddList(listType, items) in the first program, Section.CreateList
\* and List.Append for each item in the second
AuthorList ==
    /\ AuthorFrame /\ CanAuthor
    /\ sec # NoDoc
    /\ \E listType \in {"BULLET", "NUMBERED"}, items \in AuthorListItems :
         /\ sec' = AppendChild(sec, <<>>, Container("List", FALSE, listType, items))
         /\ twin' = AppendChild(twin, OpenSection,
                                Container("List", TRUE, listType, items))
    /\ authOp' = AuthorOp("List", FALSE, "sec", TRUE, OpenSection)
    /\ UNCHANGED doc

\* Section.AddSection(section) in the first program, the section holding an
\* executable; Section.CreateSection and WriteCodeBlock in the second
AuthorSubsection ==
    /\ AuthorFrame /\ CanAuthor
    /\ sec # NoDoc
    /\ \E name \in SectionNames, c \in ExecutableChoices :
         /\ sec' = AppendChild(sec, <<>>,
                       Container("Section", FALSE, name,
                                 <<Executable(c.shell, c.cmd, <<>>)>>))
         /\ twin' = AppendChild(twin, OpenSection,
                       Container("Section", TRUE, name,
                                 <<Executable(c.shell, c.cmd, <<>>)>>))
    /\ authOp' = AuthorOp("Section", FALSE, "sec", TRUE, OpenSection)
    /\ UNCHANGED doc

\* Section.WriteCodeBlock(blockType, cmd, Exec) in both programs
AuthorCodeBlock ==
    /\ AuthorFrame /\ CanAuthor
    /\ sec # NoDoc
    /\ \E c \in ExecutableChoices :
         /\ sec' = AppendChild(sec, <<>>, Executable(c.shell, c.cmd, <<>>))
         /\ twin' = AppendChild(twin, OpenSection, Executable(c.shell, c.cmd, <<>>))
    /\ authOp' = AuthorOp("WriteCodeBlock", FALSE, "sec", TRUE, OpenSection)
    /\ UNCHANGED doc

\* Section.AddIntro(paragraph) in the first program, Section.WriteIntro and
\* Paragraph.Text in the second
AuthorIntro ==
    /\ AuthorFrame /\ CanAuthor
    /\ sec # NoDoc
    /\ \E items \in AuthorItems :
         /\ sec' = PrependChild(sec, <<>>, Container("Paragraph", TRUE, "", items))
         /\ twin' = PrependChild(twin, OpenSection,
                                 Container("Paragraph", TRUE, "", items))
    /\ authOp' = AuthorOp("Intro", TRUE, "sec", TRUE, OpenSection)
    /\ UNCHANGED doc

\* Document.AddIntro(paragraph) in the first program, Document.WriteIntro and
\* Paragraph.Text in the second
AuthorDocumentIntro ==
    /\ AuthorFrame /\ CanAuthor
    /\ \E items \in AuthorItems :
         /\ doc' = PrependChild(doc, <<>>, Container("Paragraph", TRUE, "", items))
         /\ twin' = PrependChild(twin, <<>>, Container("Paragraph", TRUE, "", items))
    /\ authOp' = AuthorOp("DocumentIntro", TRUE, "doc", TRUE, <<>>)
    /\ UNCHANGED sec

\* Document.AddSection(section) in the first program, with the section it has
\* filled
AuthorAddSection ==
    /\ AuthorFrame
    /\ sec # NoDoc
    /\ doc' = AppendChild(doc, <<>>, sec)
    /\ sec' = NoDoc
    /\ authOp' = AuthorOp("AddSection", FALSE, "doc", FALSE, <<>>)
    /\ UNCHANGED twin

AuthorNext ==
    \/ AuthorNewSection
    \/ AuthorParagraph
    \/ AuthorTable
    \/ AuthorList
    \/ AuthorSubsection
    \/ AuthorCodeBlock
    \/ AuthorIntro
    \/ AuthorDocumentIntro
    \/ AuthorAddSection

SpecAuthor == AuthorInit /\ [][AuthorNext]_vars

\* ------------------------------------------------------------------------
\* Specification of a list that is pushed on and appended to
\* ------------------------------------------------------------------------

\* The texts callers put in a list
ListValues == {"item", "run", "intro"}

\* Push adding the value at the end
ListPushAtEnd(l, val) ==
    [l EXCEPT !.children = Append(l.children, Leaf("Text", val))]

\* List.Push(val)
ListPush(l, val) ==
    [l EXCEPT !.children = <<Leaf("Text", val)>> \o l.children]

\* List.Append(val)
ListAppend(l, val) ==
    [l EXCEPT !.children = Append(l.children, Leaf("Text", val))]

\* NewList(typeOfList), held in a variable of the caller
NewList(typeOfList) == Container("List", TRUE, typeOfList, <<>>)

ListInit ==
    /\ ValidateIdle /\ RunIdle /\ TableIdle
    /\ planOut = NotRendered
    /\ RenderIdle /\ ServiceIdle /\ ExtraIdle
    /\ doc \in {NewList("BULLET"), NewList("NUMBERED")}
    /\ twin = NoDoc
    /\ sec = NoDoc
    /\ authOp = NoAuthorOp

ListFrame ==
    UNCHANGED <<validateVars, runVars, tableVars, planOut, renderVars,
                serviceVars, twin, sec, extraVars>>

\* list.Push(val)
ListPushItem ==
    /\ ListFrame
    /\ Size(doc) < MaxNodes
    /\ \E val \in ListValues :
         /\ doc' = ListPush(doc, val)
         /\ authOp' = [AuthorOp("Push", FALSE, "doc", FALSE, <<>>)
                          EXCEPT !.val = val]

\* list.Append(val)
ListAppendItem ==
    /\ ListFrame
    /\ Size(doc) < MaxNodes
    /\ \E val \in ListValues :
         /\ doc' = ListAppend(doc, val)
         /\ authOp' = [AuthorOp("Append", FALSE, "doc", FALSE, <<>>)
                          EXCEPT !.val = val]

ListNext ==
    \/ ListPushItem
    \/ ListAppendItem

SpecList == ListInit /\ [][ListNext]_vars

\* ------------------------------------------------------------------------
\* Specification of Markdown.Render over documents with front matter
\* ------------------------------------------------------------------------

\* The Frontmatter values callers hand to AddFrontmatter: Frontmatter{}, one
\* made with NewFrontmatter from a map without entries, and maps with entries
FrontmatterChoices ==
    { NilData,
      [isNil |-> FALSE, entries |-> <<>>],
      [isNil |-> FALSE,
       entries |-> <<[key |-> <<"t","i","t","l","e">>, value |-> <<"D","o","c">>]>>],
      [isNil |-> FALSE,
       entries |-> <<[key |-> <<"a","u","t","h","o","r">>, value |-> sGo],
                     [key |-> <<"t","i","t","l","e">>, value |-> <<"D","o","c">>]>>] }

\* Document.AddFrontmatter(f)
DocumentAddFrontmatter ==
    /\ TreeFrame
    /\ planOut = NotRendered /\ mdOut = NotRenderedText
    /\ \E f \in FrontmatterChoices : doc' = [doc EXCEPT !.data = f]
    /\ UNCHANGED planOut

FrontmatterNext ==
    \/ DocumentAddFrontmatter
    \/ DocumentCreateSection
    \/ SectionAddParagraph
    \/ MdRender

SpecFrontmatter == TreeInit /\ [][FrontmatterNext]_vars

\* ------------------------------------------------------------------------
\* helpers.go: ApplyOptions
\* ------------------------------------------------------------------------

MaxOpts == 2

ErrNameEmpty == ErrorsNew(<<"n","a","m","e"," ","c","a","n","n","o","t"," ","b","e"," ","e","m","p","t","y">>)

ErrNameTitle == ErrorsNew(<<"n","a","m","e"," ","a","n","d"," ","t","i","t","l","e"," ","m","u","s","t"," ","m","a","t","c","h">>)

\* The option builders of callers, after the example of OptionBuilder:
\* WithName rejects the empty name, sets the name and returns a finalizer that
\* wants name and title to match; WithTitle sets the title and returns no
\* finalizer
OptionChoices ==
    { [kind |-> "WithName", value |-> v] : v \in {"", "Doc", "Notes"} }
    \cup { [kind |-> "WithTitle", value |-> v] : v \in {"", "Doc", "Notes"} }

\* opt(props): the configuration afterwards, whether a finalizer is returned,
\* and the error
OptionCall(opt, p) ==
    IF opt.kind = "WithName"
    THEN IF opt.value = ""
         THEN [props |-> p, finalizer |-> FALSE, err |-> ErrNameEmpty]
         ELSE [props |-> [p EXCEPT !.name = opt.value], finalizer |-> TRUE,
               err |-> Nil]
    ELSE [props |-> [p EXCEPT !.title = opt.value], finalizer |-> FALSE,
          err |-> Nil]

\* postEffect(props) of the finalizer WithName returns
FinalizerCall(p) == IF p.name # p.title THEN ErrNameTitle ELSE Nil

OptionsInit ==
    /\ ValidateIdle /\ RunIdle /\ TableIdle /\ TreeIdle

OptionsFrame ==
    UNCHANGED <<validateVars, runVars, tableVars, treeVars, renderVars,
                serviceVars, authorVars, lateVars>>

\* ApplyOptions(props, opts...) is called with a zero configuration
ApplyOptions ==
    /\ OptionsFrame
    /\ optPc = "idle"
    /\ \E n \in 0..MaxOpts : \E os \in [1..n -> OptionChoices] : opts' = os
    /\ optPc' = "loop"
    /\ UNCHANGED <<props, optIdx, optLog, optErr>>

\* postEffect, err := opt(props), and the return when err is not nil
CallOption ==
    /\ OptionsFrame
    /\ optPc = "loop" /\ optIdx < Len(opts)
    /\ LET out == OptionCall(opts[optIdx + 1], props)
       IN  /\ optLog' = Append(optLog, [kind |-> "option", index |-> optIdx + 1,
                                        saw |-> props])
           /\ props' = out.props
           /\ IF out.err # Nil
              THEN optErr' = out.err /\ optPc' = "done" /\ UNCHANGED optIdx
              ELSE IF out.finalizer
              THEN optPc' = "post" /\ UNCHANGED <<optIdx, optErr>>
              ELSE optIdx' = optIdx + 1 /\ UNCHANGED <<optPc, optErr>>
    /\ UNCHANGED opts

\* postEffect(props), and the return when it fails
CallFinalizer ==
    /\ OptionsFrame
    /\ optPc = "post"
    /\ optLog' = Append(optLog, [kind |-> "finalizer", index |-> optIdx + 1,
                                 saw |-> props])
    /\ IF FinalizerCall(props) # Nil
       THEN optErr' = FinalizerCall(props) /\ optPc' = "done" /\ UNCHANGED optIdx
       ELSE optIdx' = optIdx + 1 /\ optPc' = "loop" /\ UNCHANGED optErr
    /\ UNCHANGED <<opts, props>>

\* return nil after the loop
ReturnNil ==
    /\ OptionsFrame
    /\ optPc = "loop" /\ optIdx = Len(opts)
    /\ optErr' = Nil /\ optPc' = "done"
    /\ UNCHANGED <<opts, props, optIdx, optLog>>

OptionsNext ==
    \/ ApplyOptions
    \/ CallOption
    \/ CallFinalizer
    \/ ReturnNil

SpecOptions == OptionsInit /\ [][OptionsNext]_vars

\* ------------------------------------------------------------------------
\* Properties of ValidateCommandPlan
\* ------------------------------------------------------------------------

ToSet(xs) == {xs[i] : i \in 1..Len(xs)}

\* The six checks of the validator, each stated on its own.
NoArguments(plan) == plan.Args = <<>>

BlankCommand(plan) ==
    /\ plan.Args # <<>>
    /\ \A i \in 1..Len(plan.Args[1]) : plan.Args[1][i] \in WhiteSpace

CommandOutsideAllowList(plan, cfg) ==
    /\ plan.Args # <<>>
    /\ cfg.AllowedCommands # <<>>
    /\ Base(plan.Args[1]) \notin ToSet(cfg.AllowedCommands)

CommandOnDenyList(plan, cfg) ==
    /\ plan.Args # <<>>
    /\ cfg.BlockDangerousCommands
    /\ Base(plan.Args[1]) \in ToSet(dangerousCommands)

HasDangerousPattern(plan, cfg) ==
    /\ cfg.BlockDangerousCommands
    /\ \E p \in ToSet(dangerousPatterns) : Contains(Join(plan.Args, <<" ">>), p)

ShellOutsideAllowList(plan, cfg) ==
    /\ cfg.AllowedShells # <<>>
    /\ plan.Shell \notin ToSet(cfg.AllowedShells)

\* The number of the first check that fails, 0 when none does
FirstFailing(plan, cfg) ==
    IF NoArguments(plan) THEN 1
    ELSE IF BlankCommand(plan) THEN 2
    ELSE IF CommandOutsideAllowList(plan, cfg) THEN 3
    ELSE IF CommandOnDenyList(plan, cfg) THEN 4
    ELSE IF HasDangerousPattern(plan, cfg) THEN 5
    ELSE IF ShellOutsideAllowList(plan, cfg) THEN 6
    ELSE 0

TxtDangerousColon == <<"d","a","n","g","e","r","o","u","s"," ","c","o","m","m","a","n","d"," ","b","l","o","c","k","e","d",":"," ">>

TxtDangerousContains == <<"d","a","n","g","e","r","o","u","s"," ","c","o","m","m","a","n","d"," ","b","l","o","c","k","e","d",":"," ","c","o","n","t","a","i","n","s"," ","'">>

\* err is the error of check number n (0: no error)
IsErrorOfCheck(err, n, plan) ==
    CASE n = 0 -> err = Nil
      [] n = 1 -> err.sentinel = "" /\ err.msg = MsgNoArguments
      [] n = 2 -> err.sentinel = "" /\ err.msg = MsgEmptyCommand
      [] n = 3 -> err.sentinel = "ErrCommandNotAllowed"
      [] n = 4 -> /\ err.sentinel = "ErrDangerousCommand"
                  /\ err.msg = TxtDangerousColon \o Base(plan.Args[1])
      [] n = 5 -> /\ err.sentinel = "ErrDangerousCommand"
                  /\ HasPrefix(err.msg, TxtDangerousContains)
      [] n = 6 -> err.sentinel = "ErrShellNotAllowed"

\* C1: ValidateCommandPlan returns the error of the first failing check in the
\* order no arguments, blank command, command allow-list, command denylist,
\* dangerous pattern, shell allow-list, and nil exactly when no check fails.
C1_FirstFailingCheck ==
    verr # Pending =>
        /\ IsErrorOfCheck(verr, FirstFailing(vplan, vconfig), vplan)
        /\ (verr = Nil) <=> (FirstFailing(vplan, vconfig) = 0)

\* C1 witness: the command and the shell are both outside their allow-lists and
\* the denylist matches too; the validator reported the command allow-list.
C1_Witness ==
    /\ verr # Pending
    /\ CommandOutsideAllowList(vplan, vconfig)
    /\ CommandOnDenyList(vplan, vconfig)
    /\ ShellOutsideAllowList(vplan, vconfig)
    /\ verr.sentinel = "ErrCommandNotAllowed"

TxtDangerousSudo == <<"d","a","n","g","e","r","o","u","s"," ","c","o","m","m","a","n","d"," ","b","l","o","c","k","e","d",":"," ","s","u","d","o">>

\* A validated plan whose first argument is sudo, under BlockDangerousCommands
SudoBlockedCase ==
    /\ verr # Pending
    /\ vconfig.BlockDangerousCommands
    /\ vplan.Args # <<>>
    /\ vplan.Args[1] = sSudo

NamesSudoAsDangerous(err) ==
    err.sentinel = "ErrDangerousCommand" /\ err.msg = TxtDangerousSudo

\* C2 as claimed: with BlockDangerousCommands, every plan whose first argument
\* is sudo is rejected with the dangerous-command error naming sudo.
C2_Original == SudoBlockedCase => NamesSudoAsDangerous(verr)

\* C2 as amended: with BlockDangerousCommands, a plan whose first argument is
\* sudo is always rejected; the error is the dangerous-command error naming sudo
\* when AllowedCommands is empty or holds sudo, and the command-not-allowed
\* error otherwise.
C2_SudoRejected ==
    SudoBlockedCase =>
        /\ verr # Nil
        /\ IF vconfig.AllowedCommands = <<>> \/ sSudo \in ToSet(vconfig.AllowedCommands)
           THEN NamesSudoAsDangerous(verr)
           ELSE verr.sentinel = "ErrCommandNotAllowed" /\ Contains(verr.msg, sSudo)

\* C2 witness: sudo is on the allow-list and is still blocked as dangerous.
C2_Witness ==
    /\ SudoBlockedCase
    /\ sSudo \in ToSet(vconfig.AllowedCommands)
    /\ NamesSudoAsDangerous(verr)

TxtShellBash == <<"s","h","e","l","l"," ","n","o","t"," ","a","l","l","o","w","e","d",":"," ","b","a","s","h"," ","(","a","l","l","o","w","e","d",":"," ","[","s","h","]",")">>

\* A validated plan with shell bash under AllowedShells = ["sh"]
BashUnderShCase ==
    /\ verr # Pending
    /\ vconfig.AllowedShells = <<sSh>>
    /\ vplan.Shell = sBash

\* C3 as claimed: with AllowedShells = ["sh"], every plan with shell bash fails
\* with the shell-not-allowed error, whose message has bash and [sh].
C3_Original ==
    BashUnderShCase =>
        /\ verr.sentinel = "ErrShellNotAllowed"
        /\ Contains(verr.msg, sBash)
        /\ Contains(verr.msg, <<"[", "s", "h", "]">>)

\* C3 as amended: with AllowedShells = ["sh"], every plan with shell bash fails;
\* when its arguments pass the five argument checks the error is
\* "shell not allowed: bash (allowed: [sh])", and otherwise it is the error of
\* the first failing argument check.
C3_BashRejected ==
    BashUnderShCase =>
        /\ verr # Nil
        /\ IF FirstFailing(vplan, vconfig) = 6
           THEN verr.sentinel = "ErrShellNotAllowed" /\ verr.msg = TxtShellBash
           ELSE /\ FirstFailing(vplan, vconfig) \in 1..5
                /\ IsErrorOfCheck(verr, FirstFailing(vplan, vconfig), vplan)
                /\ verr.sentinel # "ErrShellNotAllowed"

\* C3 witness: a plan with good arguments and shell bash got the shell error.
C3_Witness ==
    /\ BashUnderShCase
    /\ vplan.Args = <<sEcho>>
    /\ verr.msg = TxtShellBash

\* ------------------------------------------------------------------------
\* Properties of TaskRunner.Run and RunExecutionPlan
\* ------------------------------------------------------------------------

\* A call of Run is in progress
InRun == pc \in {"validate", "envcheck", "start", "wait", "return"}

\* The name is set in the environment to a non-empty value
Found(name) == environ[name] # Unset /\ environ[name] # <<>>

IsPrefixOf(xs, ys) == Len(xs) <= Len(ys) /\ SubSeq(ys, 1, Len(xs)) = xs

\* C4: Run validates, then checks the environment, then executes: a process
\* exists only after the plan passed all six validator checks and every required
\* variable was found, and a plan failing validation gives a FAILED result
\* tagged "security validation failed" with no environment check and no process.
C4_RunOrder ==
    InRun =>
        /\ IsPrefixOf(steps, <<"validate", "envcheck", "start">>)
        /\ (proc.state # "none" =>
              /\ steps = <<"validate", "envcheck", "start">>
              /\ FirstFailing(CurrentPlan, config) = 0
              /\ \A n \in ToSet(CurrentPlan.Environment) : Found(n))
        /\ (steps # <<>> /\ FirstFailing(CurrentPlan, config) # 0 =>
              /\ pc = "return"
              /\ result.Status = FAILED
              /\ HasPrefix(result.Error.msg, MsgSecurityFailed)
              /\ steps = <<"validate">>
              /\ proc = NoProc)

\* C4 witness: a process is running for a plan that required a variable.
C4_Witness ==
    /\ pc = "wait" /\ proc.state = "running"
    /\ CurrentPlan.Environment # <<>>
    /\ config.BlockDangerousCommands

\* C4 second witness state: a rejected plan, about to be returned.
C4_WitnessRejected ==
    /\ pc = "return"
    /\ FirstFailing(CurrentPlan, config) = 4
    /\ steps = <<"validate">>

TxtEnvFailed == <<"e","n","v","i","r","o","n","m","e","n","t"," ","v","a","l","i","d","a","t","i","o","n"," ","f","a","i","l","e","d",":"," ","r","e","q","u","i","r","e","d"," ","e","n","v","i","r","o","n","m","e","n","t"," ","v","a","r","i","a","b","l","e","s"," ","n","o","t"," ","s","e","t",":"," ">>

TxtEnvFailedAll == <<"e","n","v","i","r","o","n","m","e","n","t"," ","v","a","l","i","d","a","t","i","o","n"," ","f","a","i","l","e","d",":"," ","r","e","q","u","i","r","e","d"," ","e","n","v","i","r","o","n","m","e","n","t"," ","v","a","r","i","a","b","l","e","s"," ","n","o","t"," ","s","e","t",":"," ","[","A","P","I","_","K","E","Y"," ","T","O","K","E","N"," ","A","P","I","_","K","E","Y","]">>

IsMissingName(name) == ~Found(name)

\* C5: a plan that passes validation and requires a variable that is not set
\* gets a FAILED result tagged "environment validation failed" whose error lists
\* every missing name in declaration order, and no process is started.
C5_MissingEnvListed ==
    (/\ pc = "return"
     /\ FirstFailing(CurrentPlan, config) = 0
     /\ \E n \in ToSet(CurrentPlan.Environment) : environ[n] = Unset)
    =>
        /\ result.Status = FAILED
        /\ result.Error.msg =
              TxtEnvFailed \o <<"[">>
              \o Join(SelectSeq(CurrentPlan.Environment, IsMissingName), <<" ">>)
              \o <<"]">>
        /\ \A n \in ToSet(CurrentPlan.Environment) :
              environ[n] = Unset => Contains(result.Error.msg, n)
        /\ proc = NoProc
        /\ steps = <<"validate", "envcheck">>

\* C5 witness: three required names, none set, all three listed in order.
C5_Witness ==
    /\ pc = "return"
    /\ CurrentPlan.Environment = <<sApiKey, sToken, sApiKey>>
    /\ result.Status = FAILED
    /\ result.Error.msg = TxtEnvFailedAll
    /\ proc = NoProc

\* C6: RunExecutionPlan calls the runner once per plan, in list order, one call
\* at a time, and returns one result per plan, result i for plan i; a FAILED
\* result does not stop the batch and no plan is run twice.
C6_Batch ==
    /\ calls = [i \in 1..Len(calls) |-> i]
    /\ Len(calls) = IF InRun THEN idx + 1 ELSE idx
    /\ Len(results) = Len(plans)
    /\ \A i \in 1..idx :
          /\ results[i].Command = Join(plans[i].Args, <<" ">>)
          /\ results[i].SectionName = plans[i].Context.Name
          /\ results[i].Status \in {COMPLETED, FAILED}
    /\ pc = "done" => idx = Len(plans) /\ Len(calls) = Len(plans)

\* C6 witness: the batch is over, the first command failed, the second ran and
\* completed.
C6_Witness ==
    /\ pc = "done"
    /\ Len(plans) >= 2
    /\ results[1].Status = FAILED
    /\ results[2].Status = COMPLETED
    /\ plans[1] # plans[2]

\* C7: with a non-zero timeout the process never runs past the deadline: at the
\* deadline it is killed and Run returns FAILED; with a zero timeout the runner
\* never kills the process.
C7_Deadline ==
    /\ (pc = "wait" /\ proc.state = "running" /\ config.Timeout > 0
          => elapsed <= config.Timeout)
    /\ (InRun /\ proc.state = "killed" =>
          /\ config.Timeout > 0
          /\ elapsed = config.Timeout
          /\ pc = "return"
          /\ result.Status = FAILED
          /\ result.Error # Nil)
    /\ (config.Timeout = 0 => proc.state # "killed")

\* C7 witness: a process was killed at the deadline and the result is FAILED.
C7_Witness ==
    /\ pc = "return"
    /\ proc.state = "killed"
    /\ elapsed = config.Timeout
    /\ result.Status = FAILED

\* C7 second witness state: without a timeout the process is still running at
\* the longest time the model follows.
C7_WitnessUnbounded ==
    /\ pc = "wait" /\ proc.state = "running"
    /\ config.Timeout = 0
    /\ elapsed = MaxTime

\* ------------------------------------------------------------------------
\* Properties of tables
\* ------------------------------------------------------------------------

\* C8: AddRow with more values than the table has headers returns the
\* row-too-long error and leaves the rows of the table as they were.
C8_LongRowRejected ==
    (top.name = "AddRow" /\ Len(top.row) > Len(heap[top.ref].Headers)) =>
        /\ terr = ErrRowTooLong
        /\ heap = tprev

\* C8 witness: a table that has a row was given a row that is too long.
C8_Witness ==
    /\ top.name = "AddRow"
    /\ Len(top.row) > Len(heap[top.ref].Headers)
    /\ heap[top.ref].Items # <<>>
    /\ terr # Nil

\* Every table that exists, behind a pointer or as a child of the section
AllTables == ToSet(heap) \cup {TableOf(content[i]) : i \in 1..Len(content)}

\* C9: in every reachable state every row of every table has at most as many
\* values as the table has headers.
C9_RowsFitHeaders ==
    \A t \in AllTables : \A i \in 1..Len(t.Items) :
        Len(t.Items[i].Values) <= Len(t.Headers)

\* ------------------------------------------------------------------------
\* Properties of the execution planner
\* ------------------------------------------------------------------------

\* The paths of the Executables whose ancestors are all Documents, Sections or
\* Lists
PlannedPaths(root) ==
    {q \in PathsOf(root) :
        /\ NodeAt(root, q).kind = "Executable"
        /\ \A k \in 0..(Len(q) - 1) :
              NodeAt(root, SubSeq(q, 1, k)).kind \in {"Document", "Section", "List"}}

\* Reading order: a comes before b when it is an ancestor of b or, where the
\* two paths part, a takes the earlier child
Before(a, b) ==
    \/ Len(a) < Len(b) /\ SubSeq(b, 1, Len(a)) = a
    \/ \E k \in 1..Len(a) :
          /\ k <= Len(b)
          /\ SubSeq(a, 1, k - 1) = SubSeq(b, 1, k - 1)
          /\ a[k] < b[k]

\* The position of path q among the planned paths in reading order
ReadingRank(root, q) ==
    Cardinality({r \in PlannedPaths(root) : Before(r, q)}) + 1

\* C10: Executioner.Render returns one plan for each Executable reachable from
\* the root through Document, Section and List nodes only, none for any other,
\* in depth-first reading order.
C10_OnePlanPerExecutable ==
    planOut # NotRendered =>
        /\ planOut.err = Nil
        /\ Len(planOut.plans) = Cardinality(PlannedPaths(doc))
        /\ \A q \in PlannedPaths(doc) :
              LET plan == planOut.plans[ReadingRank(doc, q)]
                  node == NodeAt(doc, q)
              IN  /\ plan.Shell = node.shell
                  /\ plan.Args = node.cmd
                  /\ plan.Environment = node.env

\* C10 witness: two different Executables were planned, the deeper one first
\* because its section comes first in its parent.
C10_Witness ==
    /\ planOut # NotRendered
    /\ Len(planOut.plans) = 2
    /\ planOut.plans[1].Args # planOut.plans[2].Args
    /\ \E a, b \in PlannedPaths(doc) :
          /\ Len(a) > Len(b)
          /\ ReadingRank(doc, a) = 1
          /\ ReadingRank(doc, b) = 2

\* C10 second witness state: the document holds an Executable inside a
\* Paragraph and the plan list is empty.
C10_WitnessParagraph ==
    /\ planOut # NotRendered
    /\ planOut.plans = <<>>
    /\ \E q \in PathsOf(doc) :
          /\ NodeAt(doc, q).kind = "Executable"
          /\ NodeAt(doc, SubSeq(q, 1, Len(q) - 1)).kind = "Paragraph"

\* The Documents, Sections and Lists on the path from the root to the node at
\* path q, the node included
EnclosingStructures(root, q) ==
    {k \in 0..Len(q) :
        NodeAt(root, SubSeq(q, 1, k)).kind \in {"Document", "Section", "List"}}

\* The path of the innermost Document, Section or List that encloses the node
\* at path q
Encloser(root, q) ==
    LET above == {k \in EnclosingStructures(root, q) : k < Len(q)}
        k == CHOOSE m \in above : \A n \in above : n <= m
    IN  SubSeq(q, 1, k)

\* C11: every plan Executioner.Render returns carries as Context the name of
\* the innermost Document, Section or List enclosing its Executable, and as
\* level the number of Documents, Sections and Lists from the root down to that
\* encloser (the root counts 1), whatever was traversed before it.
C11_PlanContext ==
    planOut # NotRendered =>
        \A q \in PlannedPaths(doc) :
            LET plan == planOut.plans[ReadingRank(doc, q)]
                encloser == Encloser(doc, q)
            IN  /\ plan.Context.Name = Identifier(NodeAt(doc, encloser))
                /\ plan.Context.Level =
                       Cardinality(EnclosingStructures(doc, encloser))

\* C11 witness: a plan of a section nested two deep (level 3) is followed by
\* the plan of a top-level section (level 2) that is traversed after it.
C11_Witness ==
    /\ planOut # NotRendered
    /\ \E i, j \in 1..Len(planOut.plans) :
          /\ i < j
          /\ planOut.plans[i].Context.Level = 3
          /\ planOut.plans[j].Context.Level = 2
          /\ planOut.plans[i].Context.Name # planOut.plans[j].Context.Name
          /\ planOut.plans[j].Context.Name # ""

\* The nodes the planner reaches (all ancestors are Documents, Sections or
\* Lists) at which processing fails: a kind outside ContentType, an executable
\* whose Materialize fails or whose metadata lacks a key
FailingPlanPaths(root) ==
    {q \in PathsOf(root) :
        /\ \A k \in 0..(Len(q) - 1) :
              NodeAt(root, SubSeq(q, 1, k)).kind \in {"Document", "Section", "List"}
        /\ \/ NodeAt(root, q).kind = "Unknown"
           \/ /\ NodeAt(root, q).kind = "Executable"
              /\ NodeAt(root, q).impl \in {"failing", "nocommand", "noshell"}}

\* C12: when processing a node of the tree fails, Executioner.Render returns
\* a non-nil error and no command plans.
C12_TraversalErrorFatal ==
    (planOut # NotRendered /\ FailingPlanPaths(doc) # {}) =>
        /\ planOut.err # Nil
        /\ planOut.plans = <<>>

\* ------------------------------------------------------------------------
\* Properties of the Markdown renderer
\* ------------------------------------------------------------------------

\* The nodes of the tree at which rendering fails: a kind the dispatch steps
\* do not recognise, a Materialize that returns an error, a Remote whose
\* reader cannot be read
MdFailingPaths(root) ==
    {q \in PathsOf(root) :
        \/ NodeAt(root, q).kind \in {"Unknown", "Frontmatter"}
        \/ NodeAt(root, q).impl = "failing"
        \/ /\ NodeAt(root, q).kind = "Remote"
           /\ readers[NodeAt(root, q).reader].fails}

\* C13: when a node of the tree has an unrecognised kind or its
\* materialization fails, Markdown.Render returns a non-nil error together
\* with an empty text.
C13_RenderAbortsOnFailure ==
    (mdOut # NotRenderedText /\ MdFailingPaths(doc) # {}) =>
        /\ mdOut.err.sentinel \notin {"nil", "panic"}
        /\ mdOut.text = <<>>

\* The paths of the Documents and Sections of a tree
HeadedPaths(root) ==
    {q \in PathsOf(root) : NodeAt(root, q).kind \in {"Document", "Section"}}

\* The nesting depth of the node at path q: one more than the number of its
\* ancestors that are Documents or Sections
Depth(root, q) ==
    1 + Cardinality({k \in 0..(Len(q) - 1) :
            NodeAt(root, SubSeq(q, 1, k)).kind \in {"Document", "Section"}})

\* The positions of a text at which a line beginning with '#' starts
HeadingStarts(text) ==
    {i \in 1..Len(text) : text[i] = "#" /\ (i = 1 \/ text[i - 1] = "\n")}

\* The line of a text that starts at position i, without its line end
LineAt(text, i) ==
    LET ends == {j \in i..Len(text) : text[j] = "\n"}
        stop == IF ends = {} THEN Len(text) + 1
                ELSE CHOOSE j \in ends : \A k \in ends : j <= k
    IN  SubSeq(text, i, stop - 1)

\* The n-th heading line of a text
HeadingLine(text, n) ==
    LET i == CHOOSE j \in HeadingStarts(text) :
                 Cardinality({k \in HeadingStarts(text) : k < j}) = n - 1
    IN  LineAt(text, i)

\* The number of '#' characters a line begins with
Hashes(line) ==
    Cardinality({i \in 1..Len(line) : \A k \in 1..i : line[k] = "#"})

\* The position of the Document or Section at path q among all of them in
\* reading order
HeadedRank(root, q) ==
    Cardinality({r \in HeadedPaths(root) : Before(r, q)}) + 1

\* C14: in the text Markdown.Render returns, the heading line of every
\* Document and Section at nesting depth d has exactly min(d, 5) '#'
\* characters, followed by a blank and the name.
C14_HeadingDepth ==
    (mdOut # NotRenderedText /\ mdOut.err = Nil) =>
        /\ Cardinality(HeadingStarts(mdOut.text)) = Cardinality(HeadedPaths(doc))
        /\ \A q \in HeadedPaths(doc) :
              LET line == HeadingLine(mdOut.text, HeadedRank(doc, q))
                  d == Depth(doc, q)
              IN  /\ Hashes(line) = IF d < 5 THEN d ELSE 5
                  /\ line = Repeat(<<"#">>, Hashes(line)) \o <<" ">>
                              \o Bytes(NodeAt(doc, q).name)

\* C14 witness: a document with a section at depth 6, below sections at the
\* depths 2 to 5, was rendered.
C14_Witness ==
    /\ mdOut # NotRenderedText
    /\ mdOut.err = Nil
    /\ \E q \in HeadedPaths(doc) : Depth(doc, q) = 6

\* ------------------------------------------------------------------------
\* Properties of the Service
\* ------------------------------------------------------------------------

\* The readers of the Remote nodes of a tree
RemoteReaders(root) ==
    {NodeAt(root, q).reader : q \in {r \in PathsOf(root) : NodeAt(root, r).kind = "Remote"}}

\* A CompareFile that returned without an error right after a RenderFile of
\* the same document to the same path did
ComparesWhatWasRendered ==
    /\ svcOp.name = "RenderFile" /\ svcErr = Nil
    /\ svcOp'.name = "CompareFile" /\ svcErr' = Nil
    /\ svcOp'.document = svcOp.document
    /\ svcOp'.path = svcOp.path

\* C15 as stated: for every document, a RenderFile to a path followed by a
\* CompareFile of the same document and path reports Matches = true.
C15_Original ==
    [][ComparesWhatWasRendered => cmpOut'.Matches]_vars

\* C15: a RenderFile to a path followed by a CompareFile of the same document
\* and path reports Matches = true when every Remote of the document reads a
\* source that gives the same bytes each time it is read.
C15_RenderThenCompare ==
    [][(/\ ComparesWhatWasRendered
        /\ \A i \in RemoteReaders(svcOp.document) : readers[i].rewinds)
       => cmpOut'.Matches]_vars

\* C15 witness: a document with a Remote over a source that starts over was
\* compared with the file it had been rendered to, and matched.
C15_Witness ==
    /\ svcOp.name = "CompareFile" /\ svcErr = Nil
    /\ RemoteReaders(svcOp.document) # {}
    /\ \A i \in RemoteReaders(svcOp.document) : readers[i].rewinds
    /\ cmpOut.Matches
    /\ files[svcOp.path].data =
           MarkdownRender(svcOp.document, svcOp.rd).text
    /\ Len(files[svcOp.path].data) > Len(Bytes("Doc")) + 3

\* C16: CompareFile returns an error and the empty ComparisonResult exactly
\* when rendering the document or loading the path fails; otherwise Matches
\* is true exactly when the rendered text equals the loaded text, and both
\* digests are returned.
C16_CompareFile ==
    svcOp.name = "CompareFile" =>
        LET r == MarkdownRender(svcOp.document, svcOp.rd)
            file == files[svcOp.path]
            failed == r.err # Nil \/ ~file.exists \/ svcOp.fault = "read"
        IN  /\ failed <=> svcErr # Nil
            /\ failed => cmpOut = ZeroComparison
            /\ ~failed =>
                  /\ cmpOut.Matches <=> (r.text = file.data)
                  /\ cmpOut.DocumentHash = EncodeToString(Md5Sum(r.text))
                  /\ cmpOut.FileHash = EncodeToString(Md5Sum(file.data))
                  /\ cmpOut.DocumentHash # <<>> /\ cmpOut.FileHash # <<>>

\* C16 witness: a document was compared with a file that holds the rendering
\* of another, so that the digests differ.
C16_Witness ==
    /\ svcOp.name = "CompareFile" /\ svcErr = Nil
    /\ ~cmpOut.Matches
    /\ cmpOut.DocumentHash # cmpOut.FileHash
    /\ files[svcOp.path].data # <<>>

\* The positions of the full plan list whose Context.Name is a section name
Matching(full, sectionName) ==
    {i \in 1..Len(full) : full[i].Context.Name = sectionName}

\* The k-th smallest of a set of positions
Kth(positions, k) ==
    CHOOSE i \in positions : Cardinality({j \in positions : j <= i}) = k

\* C17: PlanScriptExecution with the blank section name returns the full plan
\* list; with another name it returns the plans whose Context.Name is that
\* name, in the order they have in the full list, and the error "no executable
\* blocks found for section" when there is none.
C17_PlanScriptExecution ==
    svcOp.name = "PlanScriptExecution" =>
        LET full == ExecutionerRender(svcOp.document).plans
            positions == Matching(full, svcOp.section)
        IN  IF svcOp.section = ""
            THEN svcErr = Nil /\ svcPlans = full
            ELSE IF positions = {}
            THEN /\ svcPlans = <<>>
                 /\ svcErr # Nil
                 /\ SubSeq(svcErr.msg, 1, 39) =
                        <<"n","o"," ","e","x","e","c","u","t","a","b","l","e"," ","b","l","o","c","k","s"," ","f","o","u","n","d"," ","f","o","r"," ","s","e","c","t","i","o","n"," ">>
            ELSE /\ svcErr = Nil
                 /\ Len(svcPlans) = Cardinality(positions)
                 /\ \A k \in 1..Len(svcPlans) :
                       svcPlans[k] = full[Kth(positions, k)]

\* C17 witness: a section name selected several plans that are not next to
\* each other in the full list, and left others out.
C17_Witness ==
    /\ svcOp.name = "PlanScriptExecution" /\ svcOp.section # "" /\ svcErr = Nil
    /\ Len(svcPlans) >= 2
    /\ LET full == ExecutionerRender(svcOp.document).plans
           positions == Matching(full, svcOp.section)
       IN  \E i \in positions, j \in positions, m \in 1..Len(full) :
              i < m /\ m < j /\ m \notin positions

\* ------------------------------------------------------------------------
\* Properties of the authoring operations
\* ------------------------------------------------------------------------

\* C18: once the first program has handed its sections to AddSection, the
\* document written with the Add* operations and the document written with
\* the Create* and Write* operations give the same result from Markdown.Render
\* and the same result from Executioner.Render.
C18_AuthoringStylesAgree ==
    (authOp.name = "AddSection" /\ sec = NoDoc) =>
        /\ MarkdownRender(doc, readers) = MarkdownRender(twin, readers)
        /\ ExecutionerRender(doc) = ExecutionerRender(twin)

\* new is old with one child more: in front for an intro, at the end otherwise
Grows(old, new, intro) ==
    /\ Len(new) = Len(old) + 1
    /\ IF intro THEN Tail(new) = old ELSE SubSeq(new, 1, Len(old)) = old

\* after is before with only the children of the node at path changed, and
\* those grown by one
GrowsAt(before, after, path, intro) ==
    /\ Grows(NodeAt(before, path).children, NodeAt(after, path).children, intro)
    /\ after = ReplaceAt(before, path,
                   [NodeAt(before, path) EXCEPT
                       !.children = NodeAt(after, path).children])

\* C19: every operation that writes to a Document or Section adds exactly one
\* child to it and keeps the children it had in their order: AddIntro and
\* WriteIntro put the paragraph in front of them, every other operation puts
\* its node behind them.
C19_OneChildAdded ==
    (authOp.side \in {"sec", "doc"} \/ authOp.twinTouched) =>
        /\ authOp.side = "sec" =>
              GrowsAt(authOp.before.sec, sec, <<>>, authOp.intro)
        /\ authOp.side = "doc" =>
              GrowsAt(authOp.before.doc, doc, <<>>, authOp.intro)
        /\ authOp.twinTouched =>
              GrowsAt(authOp.before.twin, twin, authOp.twinPath, authOp.intro)

\* C19 witness: AddIntro and WriteIntro were called on sections that had two
\* different children, which are now second and third.
C19_Witness ==
    /\ authOp.name = "Intro"
    /\ Len(authOp.before.sec.children) = 2
    /\ authOp.before.sec.children[1] # authOp.before.sec.children[2]
    /\ Len(sec.children) = 3
    /\ sec.children[2] = authOp.before.sec.children[1]
    /\ Len(NodeAt(twin, authOp.twinPath).children) = 3
    /\ NodeAt(twin, authOp.twinPath).children[1].kind = "Paragraph"

\* C20: Push(v) makes v the first item of the list and Append(v) makes v its
\* last item; each makes the list one longer and keeps the items it had in
\* their order.
C20_PushAppend ==
    authOp.name \in {"Push", "Append"} =>
        LET old == authOp.before.doc.children
            new == doc.children
        IN  /\ Len(new) = Len(old) + 1
            /\ authOp.name = "Push" =>
                  /\ new[1] = Leaf("Text", authOp.val)
                  /\ \A i \in 1..Len(old) : new[i + 1] = old[i]
            /\ authOp.name = "Append" =>
                  /\ new[Len(new)] = Leaf("Text", authOp.val)
                  /\ \A i \in 1..Len(old) : new[i] = old[i]
            /\ doc.name = authOp.before.doc.name

\* C20 witness: a value was pushed on a list whose items differed from it and
\* from one another.
C20_Witness ==
    /\ authOp.name = "Push"
    /\ Len(authOp.before.doc.children) = 2
    /\ authOp.before.doc.children[1] # authOp.before.doc.children[2]
    /\ \A i \in 1..2 : authOp.before.doc.children[i] # Leaf("Text", authOp.val)
    /\ doc.children[1] = Leaf("Text", authOp.val)

\* ------------------------------------------------------------------------
\* Properties of front matter
\* ------------------------------------------------------------------------

\* The text begins with a line of three dashes
StartsWithDashes(text) ==
    Len(text) >= 4 /\ SubSeq(text, 1, 4) = <<"-", "-", "-", "\n">>

\* C21: Markdown.Render of a Document writes the front-matter block, between
\* lines of three dashes, before the heading exactly when the front matter of
\* the document holds at least one key.
C21_FrontmatterIffKeys ==
    (mdOut # NotRenderedText /\ mdOut.err = Nil) =>
        (StartsWithDashes(mdOut.text) <=> Len(doc.data.entries) > 0)

\* ------------------------------------------------------------------------
\* Properties of ApplyOptions
\* ------------------------------------------------------------------------

\* The configuration after the first n options were applied
RECURSIVE AppliedProps(_, _)
AppliedProps(os, n) ==
    IF n = 0 THEN NoProps
    ELSE OptionCall(os[n], AppliedProps(os, n - 1)).props

\* C22: ApplyOptions applies every option builder, in order, before it runs a
\* finalizer, so each finalizer sees the configuration with all options
\* applied; it stops at the first option or finalizer that returns an error.
C22_TwoPhases ==
    /\ \A k \in 1..Len(optLog) :
          optLog[k].kind = "finalizer" =>
              /\ Cardinality({j \in 1..(k - 1) : optLog[j].kind = "option"})
                    = Len(opts)
              /\ optLog[k].saw = AppliedProps(opts, Len(opts))
    /\ optErr \notin {Nil, Pending} => optPc = "done"

\* ------------------------------------------------------------------------
\* Specification of rendering Header content nodes
\* ------------------------------------------------------------------------

\* Section values whose Content holds a Header, directly and one section
\* further down
HeaderSectionPool ==
    { Container("Section", FALSE, "Notes", <<Leaf("Header", "Usage")>>),
      Container("Section", FALSE, "Deep",
                <<Container("Section", FALSE, "Deeper",
                            <<Leaf("Header", "Usage")>>)>>) }

\* Document.AddSection(section), the section holding a Header
DocumentAddHeaderSection ==
    /\ TreeFrame /\ CanInsert
    /\ \E section \in HeaderSectionPool : doc' = AppendChild(doc, <<>>, section)
    /\ UNCHANGED planOut

\* Section.AddSection(section), the section holding a Header
SectionAddHeaderSection ==
    /\ TreeFrame /\ CanInsert
    /\ \E s \in LiveSections(doc), section \in HeaderSectionPool :
         doc' = AppendChild(doc, s, section)
    /\ UNCHANGED planOut

\* Markdown.Render(Header{Content: text}): the Header is the node handed to
\* Render, the context path is empty
MdRenderHeader ==
    /\ MdFrame
    /\ mdOut = NotRenderedText /\ doc = NewDocument("Doc")
    /\ \E text \in {"Usage", "Notes"} :
         LET r == MarkdownRender(Leaf("Header", text), readers)
         IN  /\ doc' = Leaf("Header", text)
             /\ mdOut' = [text |-> r.text, err |-> r.err]
             /\ readers' = r.rd
    /\ UNCHANGED planOut

HeaderNext ==
    \/ DocumentCreateSection
    \/ SectionCreateSection
    \/ DocumentAddHeaderSection
    \/ SectionAddHeaderSection
    \/ MdRenderHeader
    \/ MdRender

SpecHeader == TreeInit /\ [][HeaderNext]_vars

\* ------------------------------------------------------------------------
\* render.go: the ContextPath as the slice it is.  A slice is a window on an
\* array: Push appends, and append writes into the array of its receiver when
\* the array has room, so that paths pushed from the same path share memory.
\* ------------------------------------------------------------------------

MaxSpine == 3

MaxSiblings == 2

\* &ContextPath{}: no array, no room
NilSlice == [arr |-> 0, len |-> 0, cap |-> 0]

\* The capacity append gives the array it allocates for a full slice: the
\* runtime doubles small slices; a build may also allocate exactly what is
\* needed
GrownCap(grow, s) ==
    IF grow = "exact" THEN s.len + 1
    ELSE IF s.cap = 0 THEN 1 ELSE 2 * s.cap

\* The elements of a slice
SliceValue(arrays, s) ==
    IF s.arr = 0 THEN <<>> ELSE SubSeq(arrays[s.arr], 1, s.len)

\* The elements of a slice, read up to the capacity of its array
SliceValueToCap(arrays, s) ==
    IF s.arr = 0 THEN <<>> ELSE SubSeq(arrays[s.arr], 1, s.cap)

\* The ContextPath value a renderer reads through its pointer
PathValue(arrays, s) == SliceValue(arrays, s)

\* append(c, x): the slice returned and the arrays afterwards
GoAppendZero(grow, arrays, s, x, zero) ==
    IF s.len < s.cap
    THEN [slice |-> [s EXCEPT !.len = s.len + 1],
          arrays |-> [arrays EXCEPT ![s.arr][s.len + 1] = x]]
    ELSE LET newcap == GrownCap(grow, s)
             fresh == SliceValue(arrays, s) \o <<x>>
                      \o Repeat(<<zero>>, newcap - s.len - 1)
         IN  [slice |-> [arr |-> Len(arrays) + 1, len |-> s.len + 1, cap |-> newcap],
              arrays |-> Append(arrays, fresh)]

\* append(s, x) on a slice of PathSegment
GoAppend(grow, arrays, s, x) == GoAppendZero(grow, arrays, s, x, NoContext)

\* ContextPath.Push on a slice
GoPush(grow, arrays, c, name) ==
    GoAppend(grow, arrays, c, [Name |-> name, Level |-> c.len + 1])

RECURSIVE GoExecChildren(_, _, _, _)
RECURSIVE GoExecWithTracking(_, _, _, _)

\* Executioner.renderChildren, over the children still to handle
GoExecChildren(grow, children, c, arrays) ==
    IF children = <<>> THEN [plans |-> <<>>, err |-> Nil, arrays |-> arrays]
    ELSE LET first == GoExecWithTracking(grow, Head(children), c, arrays)
         IN  IF first.err # Nil
             THEN [plans |-> <<>>, err |-> first.err, arrays |-> first.arrays]
             ELSE LET rest == GoExecChildren(grow, Tail(children), c, first.arrays)
                  IN  IF rest.err # Nil THEN rest
                      ELSE [plans |-> first.plans \o rest.plans, err |-> Nil,
                            arrays |-> rest.arrays]

\* Executioner.renderWithTracking with renderStructureNode
GoExecWithTracking(grow, node, c, arrays) ==
    IF node.kind \in {"Document", "Section", "List"}
    THEN LET ctxPath == GoPush(grow, arrays, c, Identifier(node))
             r == GoExecChildren(grow, node.children, ctxPath.slice, ctxPath.arrays)
         IN  IF r.err # Nil THEN [plans |-> <<>>, err |-> Nil, arrays |-> r.arrays]
             ELSE r
    ELSE IF node.kind = "Executable"
    THEN LET mc == Materialize(node)
             cmd == ExecRenderExecutable(mc, PathValue(arrays, c))
         IN  IF mc.err # Nil THEN [plans |-> <<>>, err |-> mc.err, arrays |-> arrays]
             ELSE IF cmd.err # Nil
             THEN [plans |-> <<>>, err |-> cmd.err, arrays |-> arrays]
             ELSE [plans |-> <<cmd.plan>>, err |-> Nil, arrays |-> arrays]
    ELSE [plans |-> <<>>, err |-> Nil, arrays |-> arrays]

\* Executioner.Render
GoExecutionerRender(grow, node) == GoExecWithTracking(grow, node, NilSlice, <<>>)

RECURSIVE GoMdChildren(_, _, _, _)
RECURSIVE GoMdWithTracking(_, _, _, _)

\* Markdown.renderChildren, over the children still to handle: the headings
\* written, in the order of the text
GoMdChildren(grow, children, c, arrays) ==
    IF children = <<>> THEN [heads |-> <<>>, arrays |-> arrays]
    ELSE LET first == GoMdWithTracking(grow, Head(children), c, arrays)
             rest == GoMdChildren(grow, Tail(children), c, first.arrays)
         IN  [heads |-> first.heads \o rest.heads, arrays |-> rest.arrays]

\* Markdown.renderWithTracking: renderDocument and renderSection push, render
\* the children and then read the level of their own path; the other structure
\* nodes pass the path on; a Header reads the level of the path it is given
GoMdWithTracking(grow, node, c, arrays) ==
    IF node.kind \in {"Document", "Section"}
    THEN LET ctxPath == GoPush(grow, arrays, c, Identifier(node))
             childContent == GoMdChildren(grow, node.children, ctxPath.slice,
                                          ctxPath.arrays)
             own == PathValue(childContent.arrays, ctxPath.slice)
             level == IF CurrentLevel(own) > 5 THEN 5 ELSE CurrentLevel(own)
         IN  [heads |-> <<[Name |-> Identifier(node), Level |-> level]>>
                          \o childContent.heads,
              arrays |-> childContent.arrays]
    ELSE IF node.kind \in {"Paragraph", "List", "Table"}
    THEN GoMdChildren(grow, node.children, c, arrays)
    ELSE IF node.kind = "Header"
    THEN [heads |-> <<[Name |-> node.name,
                       Level |-> CurrentLevel(PathValue(arrays, c))]>>,
          arrays |-> arrays]
    ELSE [heads |-> <<>>, arrays |-> arrays]

\* The subtrees put side by side: an Executable, sections with an Executable,
\* a section with a deeper section before its Executable, an empty section
SiblingPool ==
    { Executable(sSh, <<sGo>>, <<>>),
      Container("Section", TRUE, "Install", <<Executable(sBash, <<sEcho, sHi>>, <<>>)>>),
      Container("Section", TRUE, "Usage",
                <<Container("Section", TRUE, "Deep",
                            <<Executable(sSh, <<sEcho>>, <<>>)>>),
                  Executable(sSh, <<sRm>>, <<>>)>>),
      Container("Section", TRUE, "Notes", <<>>) }

\* A document with the siblings below a chain of depth - 1 sections
RECURSIVE Spine(_, _)
Spine(depth, siblings) ==
    IF depth = 1 THEN siblings
    ELSE <<Container("Section", TRUE, "Quick Start", Spine(depth - 1, siblings))>>

ContextTrees ==
    {Container("Document", TRUE, "Doc", Spine(depth, siblings)) :
        depth \in 1..MaxSpine, siblings \in SeqsUpTo(SiblingPool, MaxSiblings)}

ContextInit ==
    /\ ValidateIdle /\ RunIdle /\ TableIdle
    /\ doc \in ContextTrees
    /\ planOut = NotRendered
    /\ RenderIdle /\ ServiceIdle /\ AuthorIdle /\ OptionsIdle /\ CliIdle
    /\ ctxGrow \in {"double", "exact"}
    /\ ctxPlans = NotTraversed
    /\ ctxHeads = NotTraversed
    /\ RemoteIdle /\ ExecuteIdle /\ HandleIdle

ContextFrame ==
    UNCHANGED <<validateVars, runVars, tableVars, treeVars, renderVars,
                serviceVars, authorVars, optVars, cliVars, ctxGrow,
                remVars, exeVars, hdlVars>>

\* Executioner.Render(&doc)
ContextPlan ==
    /\ ContextFrame
    /\ ~ctxPlans.done
    /\ LET r == GoExecutionerRender(ctxGrow, doc)
       IN  ctxPlans' = [done |-> TRUE, out |-> r.plans, arrays |-> r.arrays]
    /\ UNCHANGED ctxHeads

\* Markdown.Render(&doc)
ContextRender ==
    /\ ContextFrame
    /\ ~ctxHeads.done
    /\ LET r == GoMdWithTracking(ctxGrow, doc, NilSlice, <<>>)
       IN  ctxHeads' = [done |-> TRUE, out |-> r.heads, arrays |-> r.arrays]
    /\ UNCHANGED ctxPlans

ContextNext ==
    \/ ContextPlan
    \/ ContextRender

SpecContext == ContextInit /\ [][ContextNext]_vars

\* ------------------------------------------------------------------------
\* Specification of rendering a document with Remote nodes twice
\* ------------------------------------------------------------------------

\* The readers callers hand to Remote: those of ReaderChoices and a
\* strings.Reader over the empty text
RemoteReaderChoices ==
    ReaderChoices \cup {[data |-> <<>>, fails |-> FALSE, rewinds |-> FALSE]}

RemoteFrame ==
    UNCHANGED <<validateVars, runVars, tableVars, planOut, serviceVars,
                authorVars, optVars, cliVars, ctxVars, exeVars, hdlVars>>

\* The document may take another node
CanWriteRemote ==
    mdOut = NotRenderedText /\ Size(doc) < MaxNodes

\* Document.CreateSection(name) or Section.CreateSection(name)
RemoteCreateSection ==
    /\ RemoteFrame /\ CanWriteRemote
    /\ \E s \in {<<>>} \cup LiveSections(doc), name \in {"Notes"} :
         doc' = AppendChild(doc, s, Container("Section", TRUE, name, <<>>))
    /\ UNCHANGED <<readers, mdOut, remVars>>

\* Section.WriteRemoteContent(Remote{Reader: r}), r a reader of its own or a
\* reader another Remote of the document has as well
RemoteWrite ==
    /\ RemoteFrame /\ CanWriteRemote
    /\ \E s \in LiveSections(doc) :
         \/ \E r \in RemoteReaderChoices :
              /\ readers' = Append(readers, r)
              /\ doc' = AppendChild(doc, s, Remote(Len(readers) + 1))
         \/ \E k \in 1..Len(readers) :
              /\ doc' = AppendChild(doc, s, Remote(k))
              /\ UNCHANGED readers
    /\ UNCHANGED <<mdOut, remVars>>

\* Section.WriteBlockQuote(value)
RemoteWriteBlockQuote ==
    /\ RemoteFrame /\ CanWriteRemote
    /\ \E s \in LiveSections(doc) :
         doc' = AppendChild(doc, s, Leaf("BlockQuote", "intro"))
    /\ UNCHANGED <<readers, mdOut, remVars>>

\* The first Markdown.Render(&doc)
RemoteRenderFirst ==
    /\ RemoteFrame
    /\ mdOut = NotRenderedText
    /\ LET r == MarkdownRender(doc, readers)
       IN  /\ mdOut' = [text |-> r.text, err |-> r.err]
           /\ readers' = r.rd
    /\ rdFirst' = readers
    /\ UNCHANGED <<doc, mdAgain>>

\* The second Markdown.Render(&doc)
RemoteRenderSecond ==
    /\ RemoteFrame
    /\ mdOut # NotRenderedText /\ mdAgain = NotRenderedText
    /\ LET r == MarkdownRender(doc, readers)
       IN  /\ mdAgain' = [text |-> r.text, err |-> r.err]
           /\ readers' = r.rd
    /\ UNCHANGED <<doc, mdOut, rdFirst>>

RemoteNext ==
    \/ RemoteCreateSection
    \/ RemoteWrite
    \/ RemoteWriteBlockQuote
    \/ RemoteRenderFirst
    \/ RemoteRenderSecond

SpecRemote == TreeInit /\ [][RemoteNext]_vars

\* ------------------------------------------------------------------------
\* structure.go: the tree as Go holds it.  Content is a slice of Node
\* interfaces; an interface holds either a pointer to a struct or a copy of
\* a struct.  Create* and Write* store the pointer they return, Add* stores a
\* copy of the value it is given, and a copy of a Section shares the array of
\* its Content with the Section it was copied from.
\* ------------------------------------------------------------------------

MaxHeap == 7

\* A struct with a name and a slice: Document, Section, Paragraph, Table,
\* List; Text, BlockQuote and TableRow carry no slice of nodes
HStruct(kind, name) == [kind |-> kind, name |-> name, content |-> NilSlice]

NoStruct == HStruct("", "")

\* A Node interface holding a pointer
PtrEntry(addr) == [ptr |-> addr, val |-> NoStruct]

\* A Node interface holding a copy of a struct
ValEntry(st) == [ptr |-> 0, val |-> st]

\* The nil interface an array holds beyond the length of its slices
ZeroEntry == ValEntry(NoStruct)

\* The interface stored for a handle, as a copy of the struct it points to
HandleEntryCopy(objs, addr) == ValEntry(objs[addr])

\* s.Content = append(s.Content, &section): the interface stored for a handle
HandleEntry(objs, addr) == PtrEntry(addr)

RECURSIVE ViewStruct(_, _, _, _)
RECURSIVE ViewSlice(_, _, _, _)

\* Children() of a struct, followed through pointers and copies alike
ViewSlice(objs, arrs, s, i) ==
    IF i > s.len THEN <<>>
    ELSE LET e == arrs[s.arr][i]
         IN  <<IF e.ptr # 0 THEN ViewStruct(objs, arrs, objs[e.ptr], TRUE)
               ELSE ViewStruct(objs, arrs, e.val, FALSE)>>
             \o ViewSlice(objs, arrs, s, i + 1)

\* The node a renderer sees for a struct held by pointer or by value
ViewStruct(objs, arrs, st, ptr) ==
    IF st.kind = "TableRow" THEN TableRowOf(<<st.name>>)
    ELSE IF st.kind \in {"Text", "BlockQuote"} THEN Leaf(st.kind, st.name)
    ELSE IF st.kind = "Table"
    THEN TableNode(ptr, AuthorHeaders, ViewSlice(objs, arrs, st.content, 1))
    ELSE Container(st.kind, ptr, st.name, ViewSlice(objs, arrs, st.content, 1))

ViewObj(objs, arrs, addr) == ViewStruct(objs, arrs, objs[addr], TRUE)

RECURSIVE ReachFrom(_, _, _)

\* The addresses a struct leads to through the interfaces of its slice
ReachFrom(objs, arrs, st) ==
    UNION { IF arrs[st.content.arr][i].ptr # 0
            THEN {arrs[st.content.arr][i].ptr}
                 \cup ReachFrom(objs, arrs, objs[arrs[st.content.arr][i].ptr])
            ELSE ReachFrom(objs, arrs, arrs[st.content.arr][i].val)
            : i \in 1..st.content.len }

RECURSIVE SumLen(_, _)

SumLen(objs, i) ==
    IF i > Len(objs) THEN 0 ELSE objs[i].content.len + SumLen(objs, i + 1)

\* The structs allocated and the interfaces stored so far
HeapSize(objs) == Len(objs) + SumLen(objs, 1)

\* s.Content = append(s.Content, e) on the struct at address t
ContentAppend(grow, objs, arrs, t, e) ==
    LET a == GoAppendZero(grow, arrs, objs[t].content, e, ZeroEntry)
    IN  [objs |-> [objs EXCEPT ![t].content = a.slice], arrs |-> a.arrays]

\* s.Content = append([]Node{e}, s.Content...) on the struct at address t:
\* the literal has room for one, so that append allocates for the rest
ContentPrepend(objs, arrs, t, e) ==
    LET fresh == <<e>> \o SliceValue(arrs, objs[t].content)
    IN  [objs |-> [objs EXCEPT ![t].content =
                     [arr |-> Len(arrs) + 1, len |-> Len(fresh),
                      cap |-> Len(fresh)]],
         arrs |-> Append(arrs, fresh)]

\* Create* and Write*: allocate the child, store the handle in the parent at
\* address t, at the front for an intro, and return the handle
InsertHandle(grow, objs, arrs, t, st, front) ==
    LET addr == Len(objs) + 1
        objs1 == Append(objs, st)
        e == HandleEntry(objs1, addr)
        h == IF front THEN ContentPrepend(objs1, arrs, t, e)
             ELSE ContentAppend(grow, objs1, arrs, t, e)
    IN  [objs |-> h.objs, arrs |-> h.arrs, addr |-> addr]

\* The address of the Document
DocAddr == 1

HandleInit ==
    /\ ValidateIdle /\ RunIdle /\ TableIdle
    /\ doc = NewDocument("Doc")
    /\ planOut = NotRendered
    /\ RenderIdle /\ ServiceIdle /\ AuthorIdle /\ OptionsIdle /\ CliIdle
    /\ ctxGrow \in {"double", "exact"}
    /\ ctxPlans = NotTraversed /\ ctxHeads = NotTraversed
    /\ RemoteIdle /\ ExecuteIdle
    /\ hObjs = <<HStruct("Document", "Doc")>>
    /\ hArrs = <<>>
    /\ hSec = 0
    /\ hHandles = {}
    /\ hOp = NoHandleOp

HandleFrame ==
    UNCHANGED <<validateVars, runVars, tableVars, planOut, renderVars,
                serviceVars, authorVars, optVars, cliVars, ctxVars, remVars,
                exeVars>>

\* The addresses of the handles of a kind
HandlesOf(kind) == { h.addr : h \in { x \in hHandles : hObjs[x.addr].kind = kind } }

\* The Sections a caller can call a method on: its variable and its handles
SectionTargets ==
    (IF hSec = 0 THEN {} ELSE {hSec}) \cup HandlesOf("Section")

\* The parent a handle was inserted in
ParentOf(addr) == (CHOOSE h \in hHandles : h.addr = addr).parent

\* The latest operation, with the trees as they are before it
HandleOp(name, target, handle) ==
    [name |-> name, target |-> target, handle |-> handle,
     afterAdd |-> hOp.afterAdd \/ name = "AddSection",
     before |->
       [doc |-> doc,
        sec |-> IF hSec = 0 THEN NoDoc ELSE ViewObj(hObjs, hArrs, hSec),
        parent |-> IF \E h \in hHandles : h.addr = target
                   THEN ViewObj(hObjs, hArrs, ParentOf(target))
                   ELSE NoDoc]]

\* The heap after an operation, and the Document as renderers see it then
HandleStore(after, name, target, handle) ==
    /\ hObjs' = after.objs
    /\ hArrs' = after.arrs
    /\ doc' = ViewObj(after.objs, after.arrs, DocAddr)
    /\ hOp' = HandleOp(name, target, handle)
    /\ hHandles' = IF handle = 0 THEN hHandles
                   ELSE hHandles \cup {[addr |-> handle, parent |-> target]}

\* A Create* or Write* call on the struct at address t
HandleCreate(name, t, st, front) ==
    /\ HeapSize(hObjs) + 2 <= MaxHeap
    /\ LET h == InsertHandle(ctxGrow, hObjs, hArrs, t, st, front)
       IN  HandleStore(h, name, t, h.addr)
    /\ UNCHANGED hSec

\* sec := NewSection(name)
HandleNewSection ==
    /\ HandleFrame
    /\ hSec = 0 /\ HeapSize(hObjs) < MaxHeap
    /\ hSec' = Len(hObjs) + 1
    /\ hObjs' = Append(hObjs, HStruct("Section", "Usage"))
    /\ hOp' = HandleOp("NewSection", 0, 0)
    /\ UNCHANGED <<doc, hArrs, hHandles>>

\* Document.CreateSection(name), Section.CreateSection(name)
HandleCreateSection ==
    /\ HandleFrame
    /\ \E t \in {DocAddr} \cup SectionTargets :
         HandleCreate("CreateSection", t, HStruct("Section", "Install"), FALSE)

\* Section.WriteParagraph()
HandleWriteParagraph ==
    /\ HandleFrame
    /\ \E t \in SectionTargets :
         HandleCreate("WriteParagraph", t, HStruct("Paragraph", ""), FALSE)

\* Document.WriteIntro(), Section.WriteIntro()
HandleWriteIntro ==
    /\ HandleFrame
    /\ \E t \in {DocAddr} \cup SectionTargets :
         HandleCreate("WriteIntro", t, HStruct("Paragraph", ""), TRUE)

\* Section.CreateTable(headers)
HandleCreateTable ==
    /\ HandleFrame
    /\ \E t \in SectionTargets :
         HandleCreate("CreateTable", t, HStruct("Table", ""), FALSE)

\* Section.CreateList(typeOfList)
HandleCreateList ==
    /\ HandleFrame
    /\ \E t \in SectionTargets :
         HandleCreate("CreateList", t, HStruct("List", "BULLET"), FALSE)

\* Document.AddSection(sec), Section.AddSection(sec) with the caller's
\* variable: the interface stored holds a copy of the struct.  The callers
\* modelled add the section to a parent that is not inside it.
HandleAddSection ==
    /\ HandleFrame
    /\ hSec # 0 /\ ~hOp.afterAdd /\ HeapSize(hObjs) < MaxHeap
    /\ \E t \in ({DocAddr} \cup HandlesOf("Section"))
                 \ ReachFrom(hObjs, hArrs, hObjs[hSec]) :
         HandleStore(ContentAppend(ctxGrow, hObjs, hArrs, t,
                                   ValEntry(hObjs[hSec])),
                     "AddSection", t, 0)
    /\ UNCHANGED hSec

\* A method that appends a value to the slice of the struct at address t
HandleAppendValue(name, t, st) ==
    /\ HeapSize(hObjs) < MaxHeap
    /\ HandleStore(ContentAppend(ctxGrow, hObjs, hArrs, t, ValEntry(st)),
                   name, t, 0)
    /\ UNCHANGED hSec

\* Section.WriteBlockQuote(text)
HandleWriteBlockQuote ==
    /\ HandleFrame
    /\ \E t \in SectionTargets :
         HandleAppendValue("WriteBlockQuote", t, HStruct("BlockQuote", "intro"))

\* Paragraph.Text(text) through a handle
HandleParagraphText ==
    /\ HandleFrame
    /\ \E t \in HandlesOf("Paragraph") :
         HandleAppendValue("Text", t, HStruct("Text", "intro"))

\* Table.AddRow(row...) through a handle
HandleTableAddRow ==
    /\ HandleFrame
    /\ \E t \in HandlesOf("Table") :
         HandleAppendValue("AddRow", t, HStruct("TableRow", "run"))

\* List.Append(val) through a handle
HandleListAppend ==
    /\ HandleFrame
    /\ \E t \in HandlesOf("List") :
         HandleAppendValue("Append", t, HStruct("Text", "item"))

HandleNext ==
    \/ HandleNewSection
    \/ HandleCreateSection
    \/ HandleWriteParagraph
    \/ HandleWriteIntro
    \/ HandleCreateTable
    \/ HandleCreateList
    \/ HandleAddSection
    \/ HandleWriteBlockQuote
    \/ HandleParagraphText
    \/ HandleTableAddRow
    \/ HandleListAppend

SpecHandle == HandleInit /\ [][HandleNext]_vars

\* ------------------------------------------------------------------------
\* pkg/app/app.go: the run command of the CLI
\* ------------------------------------------------------------------------

ErrDocNotFound == ErrorsNew(<<"d","o","c","u","m","e","n","t"," ","n","o","t"," ","f","o","u","n","d">>)

MsgFailedToExecute == <<"F","a","i","l","e","d"," ","t","o"," ","e","x","e","c","u","t","e"," ","s","c","r","i","p","t",":"," ">>

DecimalDigits == <<"0", "1", "2", "3", "4", "5", "6", "7", "8", "9">>

\* %d
RECURSIVE Itoa(_)
Itoa(n) ==
    IF n < 10 THEN <<DecimalDigits[n + 1]>>
    ELSE Itoa(n \div 10) \o <<DecimalDigits[(n % 10) + 1]>>

\* fmt.Errorf("%d out of %d commands failed", failedCount, len(results))
ErrCommandsFailed(failedCount, total) ==
    ErrorsNew(Itoa(failedCount) \o <<" ","o","u","t"," ","o","f"," ">> \o Itoa(total)
              \o <<" ","c","o","m","m","a","n","d","s"," ","f","a","i","l","e","d">>)

\* The documents registered with the CLI, by name
CliDocuments ==
    [name \in {"readme", "empty", "remote"} |->
        CASE name = "readme" ->
               WithSection(
                   WithSection(NewDocument("Doc"), "Install",
                               <<Executable(sBash, <<sEcho, sHi>>, <<sApiKey>>),
                                 CodeBlock(sSh, <<sRm>>)>>),
                   "Usage",
                   <<Executable(sSh, <<sSudo, sRm>>, <<>>),
                     Container("Section", TRUE, "Install",
                               <<Executable(sPython3, <<sGo, sHi>>, <<>>)>>)>>)
          [] name = "empty" -> NewDocument("Doc")
          [] name = "remote" ->
               WithSection(NewDocument("Doc"), "Notes",
                           <<Remote(1), Executable(sSh, <<sGo>>, <<>>)>>)]

\* The names given to --doc-name: the registered ones and one that is not
CliNames == DOMAIN CliDocuments \cup {"unknown"}

\* The configurations the service's TaskRunner is built with
CliConfigs == {c \in RunConfigs : c.Timeout <= 1}

\* findDoc: the document and whether the name is registered
findDoc(documents, documentName) ==
    IF documentName \in DOMAIN documents
    THEN [doc |-> documents[documentName], err |-> Nil]
    ELSE [doc |-> NoDoc, err |-> ErrDocNotFound]

\* The loop of the Action counting only the last result
FailedCountLastOnly(rs) ==
    IF rs # <<>> /\ rs[Len(rs)].Status = FAILED THEN 1 ELSE 0

\* The loop of the Action: the number of results whose Status is FAILED
FailedCount(rs) == Cardinality({i \in 1..Len(rs) : rs[i].Status = FAILED})

\* What the Action returns after the loop over the results; the loop calls
\* result.Error.Error() on every FAILED result, a nil dereference when the
\* result carries no error
CliVerdict(rs) ==
    IF \E i \in 1..Len(rs) : rs[i].Status = FAILED /\ rs[i].Error = Nil
    THEN ErrPanic
    ELSE IF FailedCount(rs) > 0
    THEN ErrCommandsFailed(FailedCount(rs), Len(rs))
    ELSE Nil

CliInit ==
    /\ ValidateIdle /\ TableIdle /\ TreeIdle
    /\ plans = <<>> /\ results = <<>>
    /\ config \in CliConfigs
    /\ environ \in RunEnvirons
    /\ idx = 0 /\ pc = "idle" /\ result = ZeroResult
    /\ calls = <<>> /\ steps = <<>> /\ proc = NoProc /\ elapsed = 0 /\ deadline = 0

CliFrame ==
    UNCHANGED <<validateVars, tableVars, treeVars, renderVars, serviceVars,
                authorVars, optVars, moreVars>>

\* The Action of run, up to the call of RunExecutionPlan inside
\* service.ExecuteScript: findDoc, then PlanScriptExecution
CliRun ==
    /\ CliFrame
    /\ cliPc = "idle"
    /\ \E name \in CliNames, section \in PlanSections :
         LET found == findDoc(CliDocuments, name)
             planned == ServicePlanScriptExecution(found.doc, section)
         IN  /\ cliArgs' = [name |-> name, section |-> section]
             /\ IF found.err # Nil
                THEN /\ cliErr' = found.err
                     /\ cliLog' = <<"findDoc">>
                     /\ cliPc' = "done"
                     /\ UNCHANGED <<plans, results, pc>>
                ELSE IF planned.err # Nil
                THEN /\ cliErr' = WrapPrefix(MsgFailedToExecute, planned.err)
                     /\ cliLog' = <<"findDoc", "plan">>
                     /\ cliPc' = "done"
                     /\ UNCHANGED <<plans, results, pc>>
                ELSE /\ plans' = planned.plans
                     /\ results' = [i \in 1..Len(planned.plans) |-> ZeroResult]
                     /\ pc' = "loop"
                     /\ cliLog' = <<"findDoc", "plan", "run">>
                     /\ cliPc' = "running"
                     /\ UNCHANGED cliErr
    /\ UNCHANGED <<config, environ, idx, result, calls, steps, proc, elapsed, deadline>>

\* The Action of run after service.ExecuteScript returned the results: the
\* loop over the results and the return
CliReport ==
    /\ CliFrame
    /\ cliPc = "running" /\ pc = "done"
    /\ cliErr' = CliVerdict(results)
    /\ cliLog' = Append(cliLog, "report")
    /\ cliPc' = "done"
    /\ UNCHANGED <<runVars, cliArgs>>

CliNext ==
    \/ CliRun
    \/ CallRun
    \/ DoValidate
    \/ DoEnvCheck
    \/ StartProcess
    \/ Tick
    \/ ProcessExit
    \/ DeadlineKill
    \/ ReturnResult
    \/ Finish
    \/ CliReport

SpecCli == CliInit /\ [][CliNext]_vars

\* ------------------------------------------------------------------------
\* Properties of the TaskResult
\* ------------------------------------------------------------------------

\* A TaskResult as Run may return it: one of the two statuses, and COMPLETED
\* exactly when no error is attached
WellFormedResult(r) ==
    /\ r.Status \in {COMPLETED, FAILED}
    /\ r.Status = COMPLETED <=> r.Error = Nil

\* C24: every TaskResult TaskRunner.Run returns has status COMPLETED or FAILED
\* and is COMPLETED exactly when its Error is nil, for every plan, the plan
\* with an empty argument list included; so is every result the batch stored.
C24_StatusMatchesError ==
    /\ pc = "return" => WellFormedResult(result)
    /\ \A i \in 1..idx : WellFormedResult(results[i])

\* C24 witness: Run returns for the plan without arguments, FAILED with an
\* error, after an earlier command of the batch completed.
C24_Witness ==
    /\ pc = "return"
    /\ CurrentPlan.Args = <<>>
    /\ result.Status = FAILED
    /\ result.Error # Nil
    /\ idx = 1
    /\ results[1].Status = COMPLETED

\* The required name is set in the environment, to the empty string
SetEmpty(name) == environ[name] = <<>>

\* C29: a required variable set to the empty string is treated exactly like
\* one that is not set: Run returns the result it returns when the variable is
\* removed from the environment, FAILED with the environment error listing the
\* name, and no process is started.
C29_EmptyIsUnset ==
    \A n \in EnvNames :
        (/\ pc = "return"
         /\ FirstFailing(CurrentPlan, config) = 0
         /\ InSeq(n, CurrentPlan.Environment)
         /\ SetEmpty(n))
        =>
            /\ result = RunEnvironment(CurrentPlan, [environ EXCEPT ![n] = Unset],
                                       NewResult(CurrentPlan)).result
            /\ result.Status = FAILED
            /\ HasPrefix(result.Error.msg, TxtEnvFailed)
            /\ InSeq(n, MissingEnv(CurrentPlan.Environment, environ))
            /\ Contains(result.Error.msg, n)
            /\ proc = NoProc
            /\ steps = <<"validate", "envcheck">>

\* C29 witness: the only required variable is set to "" and the other variable
\* has a value; Run is about to return the environment failure.
C29_Witness ==
    /\ pc = "return"
    /\ CurrentPlan.Environment = <<sApiKey>>
    /\ FirstFailing(CurrentPlan, config) = 0
    /\ SetEmpty(sApiKey)
    /\ environ[sToken] = sValue
    /\ result.Status = FAILED
    /\ steps = <<"validate", "envcheck">>

\* ------------------------------------------------------------------------
\* Properties of the run command
\* ------------------------------------------------------------------------

\* The run command is over and returned an error
CliFailed == cliPc = "done" /\ cliErr # Nil

SomeResultFailed == \E i \in 1..Len(results) : results[i].Status = FAILED

\* Every command of the batch was attempted, once, and has its result
BatchAttempted ==
    /\ pc = "done"
    /\ calls = [i \in 1..Len(plans) |-> i]
    /\ \A i \in 1..Len(plans) : results[i].Status \in {COMPLETED, FAILED}

\* An unknown name fails with nothing planned and nothing executed
UnknownNameFailsFirst ==
    (cliPc = "done" /\ cliArgs.name \notin DOMAIN CliDocuments) =>
        /\ cliErr = ErrDocNotFound
        /\ cliLog = <<"findDoc">>
        /\ plans = <<>> /\ calls = <<>> /\ results = <<>> /\ pc = "idle"

\* C23 as stated: for a registered document the run command returns an error
\* if and only if a TaskResult of the batch is FAILED, once every command was
\* attempted; an unknown name fails before anything is planned or executed.
C23_Original ==
    /\ (cliPc = "done" /\ cliArgs.name \in DOMAIN CliDocuments) =>
          /\ cliErr # Nil <=> SomeResultFailed
          /\ cliErr # Nil => BatchAttempted
    /\ UnknownNameFailsFirst

\* C23, amended: the run command returns an error if and only if the name is
\* unknown, or ExecuteScript returned an error (planning failed: nothing was
\* executed and there is no TaskResult), or a TaskResult of the batch is
\* FAILED; in the last case it returns "<f> out of <n> commands failed" only
\* after every command of the batch was attempted.
C23_RunFailure ==
    /\ cliPc = "done" =>
          LET found == findDoc(CliDocuments, cliArgs.name)
              planned == ServicePlanScriptExecution(found.doc, cliArgs.section)
          IN  /\ cliErr # Pending
              /\ cliErr # Nil <=>
                    \/ found.err # Nil
                    \/ planned.err # Nil
                    \/ SomeResultFailed
              /\ (found.err = Nil /\ planned.err # Nil) =>
                    /\ cliErr = WrapPrefix(MsgFailedToExecute, planned.err)
                    /\ cliLog = <<"findDoc", "plan">>
                    /\ calls = <<>> /\ results = <<>>
              /\ (found.err = Nil /\ planned.err = Nil) =>
                    /\ BatchAttempted
                    /\ plans = planned.plans
                    /\ cliLog = <<"findDoc", "plan", "run", "report">>
                    /\ SomeResultFailed =>
                          cliErr = ErrCommandsFailed(FailedCount(results), Len(results))
    /\ cliPc = "running" => cliErr = Pending
    /\ UnknownNameFailsFirst

\* C23 witness: three commands were planned, the first failed, the later ones
\* were still attempted and one completed, and the command reports the failure.
C23_Witness ==
    /\ cliPc = "done"
    /\ Len(plans) = 3
    /\ results[1].Status = FAILED
    /\ results[3].Status = COMPLETED
    /\ calls = <<1, 2, 3>>
    /\ cliErr # Nil

\* C23 second witness state: a section without executable blocks, the command
\* fails with no TaskResult.
C23_WitnessNoBlocks ==
    /\ cliPc = "done"
    /\ cliArgs = [name |-> "readme", section |-> "Missing"]
    /\ cliErr # Nil
    /\ results = <<>>

\* ------------------------------------------------------------------------
\* Properties of heading lines
\* ------------------------------------------------------------------------

\* C25: every heading line in the text Markdown.Render returns, the line of a
\* Header content node included, begins with 1 to 5 '#' characters, whatever
\* the depth of the node; rendering a Header with an empty context path gives
\* such a line as well.
C25_HeadingLinesBounded ==
    mdOut # NotRenderedText =>
        /\ mdOut.err # ErrPanic
        /\ mdOut.err = Nil =>
              \A i \in HeadingStarts(mdOut.text) :
                  Hashes(LineAt(mdOut.text, i)) \in 1..5
        /\ (doc.kind = "Header" /\ mdOut.err = Nil) =>
              HeadingStarts(mdOut.text) # {}

\* ------------------------------------------------------------------------
\* Properties of the context path
\* ------------------------------------------------------------------------

\* The tree without the node at path r
RemoveChild(root, r) ==
    LET parent == SubSeq(r, 1, Len(r) - 1)
        i == r[Len(r)]
        target == NodeAt(root, parent)
    IN  ReplaceAt(root, parent,
            [target EXCEPT !.children =
                SubSeq(target.children, 1, i - 1)
                \o SubSeq(target.children, i + 1, Len(target.children))])

\* A sequence without the n elements after the first off
RemoveSegment(xs, off, n) ==
    SubSeq(xs, 1, off) \o SubSeq(xs, off + n + 1, Len(xs))

\* The paths of a set that lie in the subtree at r
Under(paths, r) ==
    {q \in paths : Len(q) >= Len(r) /\ SubSeq(q, 1, Len(r)) = r}

\* The paths of a set that come before the subtree at r in reading order
Ahead(paths, r) == {q \in paths : Before(q, r)}

\* The sections of a tree
SectionPaths(root) == {q \in PathsOf(root) : NodeAt(root, q).kind = "Section"}

\* C26: sibling subtrees never observe each other's context pushes.  In both
\* renderers the name and level a node sees are those of its own chain of
\* ancestors, and what is planned and written for the rest of the tree is the
\* same as if a section were absent: removing any section removes its own
\* plans and headings from the results and changes nothing else, whatever
\* arrays the paths share.
C26_SiblingsIsolated ==
    /\ ctxPlans.done =>
          /\ Len(ctxPlans.out) = Cardinality(PlannedPaths(doc))
          /\ \A q \in PlannedPaths(doc) :
                ctxPlans.out[ReadingRank(doc, q)].Context =
                    [Name |-> Identifier(NodeAt(doc, Encloser(doc, q))),
                     Level |-> Cardinality(EnclosingStructures(doc, Encloser(doc, q)))]
          /\ \A r \in SectionPaths(doc) :
                GoExecutionerRender(ctxGrow, RemoveChild(doc, r)).plans =
                    RemoveSegment(ctxPlans.out,
                                  Cardinality(Ahead(PlannedPaths(doc), r)),
                                  Cardinality(Under(PlannedPaths(doc), r)))
    /\ ctxHeads.done =>
          /\ Len(ctxHeads.out) = Cardinality(HeadedPaths(doc))
          /\ \A q \in HeadedPaths(doc) :
                ctxHeads.out[HeadedRank(doc, q)] =
                    [Name |-> Identifier(NodeAt(doc, q)),
                     Level |-> IF Depth(doc, q) < 5 THEN Depth(doc, q) ELSE 5]
          /\ \A r \in SectionPaths(doc) :
                GoMdWithTracking(ctxGrow, RemoveChild(doc, r), NilSlice, <<>>).heads =
                    RemoveSegment(ctxHeads.out,
                                  Cardinality(Ahead(HeadedPaths(doc), r)),
                                  Cardinality(Under(HeadedPaths(doc), r)))

\* C26 witness: a section is planned and written after a sibling that holds a
\* deeper section, the paths of the two siblings were pushed into the same
\* array, and both renderers are done.
C26_Witness ==
    /\ ctxPlans.done /\ ctxHeads.done
    /\ ctxGrow = "double"
    /\ \E r \in SectionPaths(doc) :
          LET sibling == SubSeq(r, 1, Len(r) - 1) \o <<r[Len(r)] - 1>>
          IN  /\ r[Len(r)] > 1
              /\ NodeAt(doc, sibling).kind = "Section"
              /\ \E q \in SectionPaths(doc) : Len(q) > Len(sibling) /\ Before(sibling, q)
              /\ Under(PlannedPaths(doc), r) # {}
    /\ Len(ctxPlans.arrays) < Cardinality(HeadedPaths(doc))
    /\ Len(ctxHeads.arrays) < Cardinality(HeadedPaths(doc))

\* ------------------------------------------------------------------------
\* Properties of Remote nodes
\* ------------------------------------------------------------------------

\* The paths of the Remote nodes of a tree
RemotePaths(root) == {q \in PathsOf(root) : NodeAt(root, q).kind = "Remote"}

\* A reader that reads without error and stays at its end once drained
OnePass(r) == ~r.fails /\ ~r.rewinds

\* Both renders are done
RenderedTwice == mdOut # NotRenderedText /\ mdAgain # NotRenderedText

\* C28 as stated: Materialize of a Remote (over a reader that reads without
\* error and does not start over) returns the whole source the first time and
\* empty content afterwards, so the second render of a tree holding a Remote
\* differs from the first.
C28_Original ==
    (/\ RenderedTwice
     /\ RemotePaths(doc) # {}
     /\ \A k \in RemoteReaders(doc) : OnePass(rdFirst[k]))
    =>
        /\ mdOut.err = Nil /\ mdAgain.err = Nil
        /\ \A q \in RemotePaths(doc) :
              MaterializeRemote(NodeAt(doc, q), readers) =
                  [Type |-> "Remote", Content |-> <<>>, Metadata |-> <<>>,
                   err |-> Nil, rd |-> readers]
        /\ mdAgain.text # mdOut.text

\* C28, amended: Materialize reads the Reader of a Remote to its end.  Once a
\* render succeeded, a reader that reads without error and does not start
\* over is drained: its content is in the first text, and every later
\* Materialize of the node succeeds with empty content.  The second render
\* differs from the first exactly when the first succeeded and one of these
\* readers held a non-empty text; with empty sources, or when a reader fails,
\* the two renders return the same.
C28_RemoteConsumed ==
    /\ (mdOut # NotRenderedText /\ mdOut.err = Nil) =>
          \A q \in RemotePaths(doc) :
              LET node == NodeAt(doc, q)
              IN  OnePass(rdFirst[node.reader]) =>
                      /\ Contains(mdOut.text, rdFirst[node.reader].data)
                      /\ readers[node.reader].data = <<>>
                      /\ MaterializeRemote(node, readers) =
                            [Type |-> "Remote", Content |-> <<>>, Metadata |-> <<>>,
                             err |-> Nil, rd |-> readers]
    /\ RenderedTwice =>
          /\ mdAgain.err = Nil <=> mdOut.err = Nil
          /\ mdAgain # mdOut <=>
                /\ mdOut.err = Nil
                /\ \E k \in RemoteReaders(doc) :
                      OnePass(rdFirst[k]) /\ rdFirst[k].data # <<>>

\* C28 witness: a document with a Remote over a strings.Reader with text was
\* rendered twice, the second text is not the first.
C28_Witness ==
    /\ RenderedTwice
    /\ mdOut.err = Nil /\ mdAgain.err = Nil
    /\ \E k \in RemoteReaders(doc) : OnePass(rdFirst[k]) /\ rdFirst[k].data # <<>>
    /\ mdAgain.text # mdOut.text

\* C28 second witness state: the only Remote reads an empty source, the two
\* renders succeed with the same text.
C28_WitnessEmpty ==
    /\ RenderedTwice
    /\ mdOut.err = Nil
    /\ Cardinality(RemotePaths(doc)) = 1
    /\ \A k \in RemoteReaders(doc) : OnePass(rdFirst[k]) /\ rdFirst[k].data = <<>>
    /\ mdAgain = mdOut

\* ------------------------------------------------------------------------
\* Properties of the storage behind the Service
\* ------------------------------------------------------------------------

\* The operation of this step is a RenderFile whose render succeeded
RenderedAndSaved ==
    /\ svcOp'.name = "RenderFile"
    /\ MarkdownRender(svcOp'.document, svcOp'.rd).err = Nil

\* C30: storage changes only through a successful render in RenderFile.  A
\* RenderFile whose render fails returns the error of the render and leaves
\* every path as it was; CompareFile, PlanScriptExecution and ExecuteScript
\* leave every path as it was.
C30_StorageFrame ==
    [][/\ files' # files => RenderedAndSaved
       /\ svcOp'.name \in {"CompareFile", "PlanScriptExecution", "ExecuteScript"}
             => files' = files
       /\ (/\ svcOp'.name = "RenderFile"
           /\ MarkdownRender(svcOp'.document, svcOp'.rd).err # Nil)
             => /\ files' = files
                /\ svcErr' = MarkdownRender(svcOp'.document, svcOp'.rd).err]_vars

\* C30 witness: a file was stored, and a RenderFile of a document whose render
\* fails returned the error; the file is still there.
C30_Witness ==
    /\ svcOp.name = "RenderFile"
    /\ svcErr = ErrRead
    /\ \E path \in Paths : files[path].exists /\ files[path].data # <<>>

\* C30 second witness state: a file was stored and ExecuteScript ran a batch
\* of which a command failed.
C30_WitnessExecute ==
    /\ svcOp.name = "ExecuteScript"
    /\ svcErr = Nil
    /\ \E i \in 1..Len(svcResults) : svcResults[i].Status = FAILED
    /\ \E i \in 1..Len(svcResults) : svcResults[i].Status = COMPLETED
    /\ \E path \in Paths : files[path].exists /\ files[path].data # <<>>

\* ------------------------------------------------------------------------
\* C27: handles and snapshots
\* ------------------------------------------------------------------------

HandleAddrs == { h.addr : h \in hHandles }

\* The latest operation was called through a handle
ViaHandle == hOp.target \in HandleAddrs

\* The latest operation was called on the caller's variable after the
\* variable was passed to AddSection
OnPassedVariable ==
    /\ hOp.afterAdd /\ hOp.target # 0 /\ hOp.target = hSec
    /\ hOp.name # "AddSection"

\* The slice of the struct at address parent holds the pointer addr
HeldBy(parent, addr) ==
    \E i \in 1..hObjs[parent].content.len :
        hArrs[hObjs[parent].content.arr][i] = PtrEntry(addr)

\* The latest operation wrote text, a row, a quote or a heading
WroteContent ==
    hOp.name \in {"Text", "AddRow", "Append", "WriteBlockQuote",
                  "CreateSection", "AddSection"}

\* The Document leads to the struct at addr
InDocument(addr) == addr \in ReachFrom(hObjs, hArrs, hObjs[DocAddr])

\* C27: every handle Create* and Write* returned is still held, as a
\* pointer, by the parent it was inserted in, whatever was added to the
\* parent since; a mutation made through a handle shows in the Children() of
\* its parent and, when it writes content, in the render of the parent, and
\* in the Document and its render when the Document leads to the handle; a
\* method called on the caller's Section variable after the variable was
\* passed to AddSection changes the variable and leaves the Document as it
\* was.
C27_HandlesLive ==
    /\ \A h \in hHandles : HeldBy(h.parent, h.addr)
    /\ ViaHandle =>
         LET par == ViewObj(hObjs, hArrs, ParentOf(hOp.target))
         IN  /\ par # hOp.before.parent
             /\ \E i \in 1..Len(par.children) :
                  par.children[i] = ViewObj(hObjs, hArrs, hOp.target)
             /\ WroteContent =>
                  MarkdownRender(par, <<>>)
                    # MarkdownRender(hOp.before.parent, <<>>)
             /\ InDocument(hOp.target) =>
                  /\ doc # hOp.before.doc
                  /\ WroteContent =>
                       MarkdownRender(doc, <<>>)
                         # MarkdownRender(hOp.before.doc, <<>>)
    /\ OnPassedVariable =>
         /\ ViewObj(hObjs, hArrs, hSec) # hOp.before.sec
         /\ doc = hOp.before.doc

\* A paragraph handle wrote text after its parent took further children,
\* and the Document leads to it
C27_Witness ==
    /\ ViaHandle /\ hOp.name = "Text" /\ InDocument(hOp.target)
    /\ hObjs[ParentOf(hOp.target)].content.len >= 2
    /\ hArrs[hObjs[ParentOf(hOp.target)].content.arr][1] = PtrEntry(hOp.target)
    /\ hObjs[hOp.target].content.len = 1

\* The caller's variable appended into the array it shares with the copy
\* the Document holds
C27_WitnessSharedArray ==
    /\ OnPassedVariable /\ hOp.name = "WriteBlockQuote"
    /\ \E t \in {DocAddr} \cup HandleAddrs :
         \E i \in 1..hObjs[t].content.len :
            LET e == hArrs[hObjs[t].content.arr][i]
            IN  /\ e.ptr = 0 /\ e.val.kind = "Section"
                /\ e.val.content.arr = hObjs[hSec].content.arr
                /\ e.val.content.len < hObjs[hSec].content.len

\* A handle obtained from the caller's variable wrote after the variable was
\* passed to AddSection, and the Document shows it
C27_WitnessCopyHoldsHandle ==
    /\ ViaHandle /\ hOp.afterAdd /\ hOp.name = "Text"
    /\ ParentOf(hOp.target) = hSec
    /\ doc # hOp.before.doc

=============================================================================
